---- MODULE Spec2Model ----
(***************************************************************************)
(* Health & Speed Checker: the orchestration engine (agent/src/lib.rs).    *)
(*                                                                         *)
(* ScoringEngine.calculate_scores is modelled with its f32 arithmetic:     *)
(* every f32 value is held as an integer number of 2^-23 ("Q23"), which is *)
(* exact for every value the accumulators can take, and every product and  *)
(* difference is rounded to 24 significant bits, ties to even, as IEEE-754 *)
(* binary32 does.                                                          *)
(***************************************************************************)
EXTENDS Integers, Sequences, FiniteSets, TLC

VARIABLES
    issues,     \* ScoringEngine: the issue slice handed to calculate_scores
    scores,     \* ScoringEngine: the SystemScores it returned
    checkers,   \* ScannerEngine.checkers: the registered checkers, in order
    last,       \* what the latest call of the engine did and returned
    license_file,   \* LicenseManager: what is at license_path
    now,            \* chrono::Utc::now().timestamp() at the latest call
    license_calls,  \* the calls made on the LicenseManager, oldest first
    key_parts,      \* validate_key: the segments of the key handed to it
    key_valid,      \* validate_key: what it returned
    db,             \* Db: the automation_settings row and the scans table
    daemon,         \* the automation thread: where it is and its latest iteration
    proc,           \* a fix action's child process and the fix waiting on it
    conns,          \* the connections open on the store and their writes
    gui             \* the GUI process: AppState and its running commands

license_vars == <<license_file, now, license_calls>>

key_vars == <<key_parts, key_valid>>

daemon_vars == <<db, daemon>>

command_vars == <<proc>>

vars == <<issues, scores, checkers, last, license_vars, key_vars, daemon_vars, command_vars,
          conns, gui>>

-----------------------------------------------------------------------------
(* Bounds *)

\* longest issue list handed to calculate_scores
MaxIssues == 3

\* most checkers registered with one engine
MaxCheckers == 3

\* most calls made on one LicenseManager
MaxCalls == 3

\* most iterations of the automation loop
MaxIterations == 2

\* most seconds a fix action is followed for
MaxWait == 12

\* most segments joined into a key handed to validate_key
MaxSegments == 5

-----------------------------------------------------------------------------
(* Data types *)

IssueSeverity == {"Critical", "Warning", "Info"}

ImpactCategory == {"Security", "Performance", "Privacy", "Both"}

\* FixAction; params are opaque JSON and play no part in any decision
FixAction(action_id, is_auto_fix) ==
    [action_id |-> action_id, is_auto_fix |-> is_auto_fix]

NoFix == [action_id |-> "", is_auto_fix |-> FALSE]

\* Issue; title and description are display text only
Issue(id, severity, impact, fix) ==
    [id |-> id, severity |-> severity, impact_category |-> impact, fix |-> fix]

SystemScores(health, speed) == [health |-> health, speed |-> speed]

-----------------------------------------------------------------------------
(* f32 arithmetic *)

\* 1.0 as a number of 2^-23
One == 2 ^ 23

\* number of low bits an integer magnitude loses when held in 24 bits
DropBits(a) ==
    IF a < 16777216 THEN 0
    ELSE IF a < 33554432 THEN 1
    ELSE IF a < 67108864 THEN 2
    ELSE IF a < 134217728 THEN 3
    ELSE IF a < 268435456 THEN 4
    ELSE IF a < 536870912 THEN 5
    ELSE IF a < 1073741824 THEN 6
    ELSE 7

\* round to the nearest value with a 24-bit significand, ties to even
F32Round(v) ==
    LET a  == IF v < 0 THEN 0 - v ELSE v
        q  == 2 ^ DropBits(a)
        r  == a % q
        lo == a - r
        up == (2 * r > q) \/ (2 * r = q /\ (lo \div q) % 2 = 1)
        m  == IF up THEN lo + q ELSE lo
    IN  IF v < 0 THEN 0 - m ELSE m

\* the f32 nearest to num/10, as a number of 2^-24 (0.8 needs the 24th bit)
F32Tenths24(num) ==
    LET x == num * 2 * One
        d == x \div 10
        r == x % 10
        n == IF 2 * r > 10 \/ (2 * r = 10 /\ d % 2 = 1) THEN d + 1 ELSE d
    IN  F32Round(n)

\* ScoringEngine::default: the weight table, in tenths
WeightTenths(id) ==
    CASE id = "windows_update_pending" -> 15
      [] id = "firewall_disabled" -> 20
      [] id = "rdp_port_open" -> 20
      [] id = "excessive_startup_items" -> 8
      [] OTHER -> 10

\* self.weights.get(&issue.id).unwrap_or(&1.0), as a number of 2^-24
Weight24(id) == F32Tenths24(WeightTenths(id))

\* penalty * weight in f32, as a number of 2^-23
\* (every product is at least 1.6, so its last 2^-24 bit is zero)
F32Mul(penalty, w24) == F32Round(penalty * w24) \div 2

\* a - b in f32
F32Sub(a, b) == F32Round(a - b)

SecurityPenalty(severity) ==
    CASE severity = "Critical" -> 20
      [] severity = "Warning" -> 10
      [] severity = "Info" -> 2

\* mutant: the Security table used for Performance issues
PerformancePenalty_AsSecurity(severity) == SecurityPenalty(severity)

PerformancePenalty(severity) ==
    CASE severity = "Critical" -> 25
      [] severity = "Warning" -> 12
      [] severity = "Info" -> 3

BothPenalty == 15

\* mutant: a Both-impact issue is charged by severity, like a Security issue
HealthPenalty_BothBySeverity(issue) ==
    CASE issue.impact_category \in {"Security", "Both"} ->
            F32Mul(SecurityPenalty(issue.severity), Weight24(issue.id))
      [] OTHER -> 0

\* what one issue takes off health_score
HealthPenalty(issue) ==
    CASE issue.impact_category = "Security" ->
            F32Mul(SecurityPenalty(issue.severity), Weight24(issue.id))
      [] issue.impact_category = "Both" ->
            F32Mul(BothPenalty, Weight24(issue.id))
      [] OTHER -> 0

\* mutant: a Privacy-impact issue is charged like a Both-impact issue
SpeedPenalty_PrivacyCounts(issue) ==
    CASE issue.impact_category = "Performance" ->
            F32Mul(PerformancePenalty(issue.severity), Weight24(issue.id))
      [] OTHER -> F32Mul(BothPenalty, Weight24(issue.id))

\* what one issue takes off speed_score
SpeedPenalty(issue) ==
    CASE issue.impact_category = "Performance" ->
            F32Mul(PerformancePenalty(issue.severity), Weight24(issue.id))
      [] issue.impact_category = "Both" ->
            F32Mul(BothPenalty, Weight24(issue.id))
      [] OTHER -> 0

\* mutant: health_score starts at 0.0
RECURSIVE HealthAcc_FromZero(_, _)
HealthAcc_FromZero(list, n) ==
    IF n = 0 THEN 0
    ELSE F32Sub(HealthAcc_FromZero(list, n - 1), HealthPenalty(list[n]))

\* the loop of calculate_scores: health_score after the first n issues
RECURSIVE HealthAcc(_, _)
HealthAcc(list, n) ==
    IF n = 0 THEN 100 * One
    ELSE F32Sub(HealthAcc(list, n - 1), HealthPenalty(list[n]))

RECURSIVE SpeedAcc(_, _)
SpeedAcc(list, n) ==
    IF n = 0 THEN 100 * One
    ELSE F32Sub(SpeedAcc(list, n - 1), SpeedPenalty(list[n]))

\* mutant: the conversion rounds to the nearest integer
ClampToU8_Rounding(x) ==
    LET lo == IF x < 0 THEN 0 ELSE x
        hi == IF lo > 100 * One THEN 100 * One ELSE lo
    IN  (hi + One \div 2) \div One

\* mutant: no clamp, and a conversion that wraps modulo 256
ClampToU8_Wrapping(x) == (x \div One) % 256

\* x.max(0.0).min(100.0) as u8
ClampToU8(x) ==
    LET lo == IF x < 0 THEN 0 ELSE x
        hi == IF lo > 100 * One THEN 100 * One ELSE lo
    IN  hi \div One

calculate_scores(list) ==
    SystemScores(ClampToU8(HealthAcc(list, Len(list))),
                 ClampToU8(SpeedAcc(list, Len(list))))

-----------------------------------------------------------------------------
(* Checkers: the plugin contract and the implementations the engine is given *)

CheckCategory ==
    {"Security", "Performance", "Privacy", "Firmware", "Threat", "Compliance"}

ScanOptions == [security : BOOLEAN, performance : BOOLEAN, quick : BOOLEAN,
                exclude_apps : BOOLEAN, exclude_startup : BOOLEAN]

\* ScanOptions::default()
DefaultScanOptions ==
    [security |-> TRUE, performance |-> TRUE, quick |-> FALSE,
     exclude_apps |-> FALSE, exclude_startup |-> FALSE]

\* Checker::name of the implementations modelled. custom_checker stands for
\* an implementation of the trait in a category the engine does not gate; it
\* keeps the trait's default fix.
CheckerNames ==
    {"firewall_checker", "port_scanner", "startup_analyzer",
     "bottleneck_analyzer", "Storage & Drive Health", "custom_checker"}

\* Checker::category
category(name) ==
    CASE name = "firewall_checker" -> "Security"
      [] name = "port_scanner" -> "Security"
      [] name = "startup_analyzer" -> "Performance"
      [] name = "bottleneck_analyzer" -> "Performance"
      [] name = "Storage & Drive Health" -> "Performance"
      [] name = "custom_checker" -> "Privacy"

FirewallDisabled ==
    Issue("firewall_disabled", "Critical", "Security",
          FixAction("enable_firewall", TRUE))

PortOpen445 ==
    Issue("port_open_445", "Warning", "Security", FixAction("close_port_445", FALSE))

PortOpen3389 ==
    Issue("port_open_3389", "Critical", "Security", FixAction("close_port_3389", FALSE))

ExcessiveStartupItems ==
    Issue("excessive_startup_items", "Warning", "Performance",
          FixAction("optimize_startup", FALSE))

BloatwareStartup ==
    Issue("bloatware_startup_skype", "Info", "Performance",
          FixAction("disable_startup_Skype", TRUE))

BottleneckMechanicalHdd ==
    Issue("bottleneck_mechanical_hdd", "Warning", "Performance",
          FixAction("show_ssd_guide", FALSE))

BottleneckWeakCpu ==
    Issue("bottleneck_weak_cpu", "Info", "Performance", NoFix)

BottleneckNone ==
    Issue("bottleneck_none", "Info", "Performance", NoFix)

StorageLowSpace ==
    Issue("storage_low_space__", "Critical", "Performance", NoFix)

CustomFinding ==
    Issue("custom_finding", "Warning", "Privacy", NoFix)

\* what a call of Checker::run can do: return issues, or panic
Returned(list) == [panic |-> FALSE, issues |-> list]

Panicked == [panic |-> TRUE, issues |-> <<>>]

\* mutant: no checker looks at the options
RunOutcomes_FlagsIgnored(name, options) ==
    CASE name = "firewall_checker" ->
            {Returned(<<>>), Returned(<<FirewallDisabled>>)}
      [] name = "port_scanner" ->
            {Returned(<<>>), Returned(<<PortOpen445, PortOpen3389>>)}
      [] name = "startup_analyzer" ->
            {Returned(<<>>), Returned(<<ExcessiveStartupItems, BloatwareStartup>>)}
      [] name = "bottleneck_analyzer" ->
            {Returned(<<BottleneckNone>>),
             Returned(<<BottleneckMechanicalHdd, BottleneckWeakCpu>>)}
      [] name = "Storage & Drive Health" ->
            {Returned(<<>>), Returned(<<StorageLowSpace>>), Panicked}
      [] name = "custom_checker" ->
            {Returned(<<>>), Returned(<<CustomFinding>>)}

\* Checker::run: the outcomes the host machine can make it produce
RunOutcomes(name, options) ==
    CASE name = "firewall_checker" ->
            {Returned(<<>>), Returned(<<FirewallDisabled>>)}
      [] name = "port_scanner" ->
            IF options.quick THEN {Returned(<<>>)}
            ELSE {Returned(<<>>), Returned(<<PortOpen445, PortOpen3389>>)}
      [] name = "startup_analyzer" ->
            IF options.exclude_startup THEN {Returned(<<>>)}
            ELSE {Returned(<<>>), Returned(<<ExcessiveStartupItems, BloatwareStartup>>)}
      [] name = "bottleneck_analyzer" ->
            {Returned(<<BottleneckNone>>),
             Returned(<<BottleneckMechanicalHdd, BottleneckWeakCpu>>)}
      [] name = "Storage & Drive Health" ->
            \* percent_free divides by total_bytes: a drive that df reports
            \* with a size of 0 makes run panic
            {Returned(<<>>), Returned(<<StorageLowSpace>>), Panicked}
      [] name = "custom_checker" ->
            {Returned(<<>>), Returned(<<CustomFinding>>)}

\* the issue ids a checker can report
IssueIdsOf(name) ==
    UNION {{o.issues[k].id : k \in 1..Len(o.issues)} :
              o \in UNION {RunOutcomes(name, opt) : opt \in ScanOptions}}

Message(text, arg) == [text |-> text, arg |-> arg]

\* FixResult::success / FixResult::failure
FixResult(success, message) == [success |-> success, message |-> message]

\* Result<FixResult, String>
Ok(result) == [ok |-> TRUE, result |-> result, err |-> Message("", "")]

Err(message) ==
    [ok |-> FALSE, result |-> FixResult(FALSE, Message("", "")), err |-> message]

\* the action ids whose remediation a checker implements
Owns(name, action_id) ==
    \/ name = "firewall_checker" /\ action_id = "enable_firewall"
    \/ name = "bottleneck_analyzer" /\ action_id = "show_ssd_guide"

\* Checker::fix: the replies a checker can give for an action id
FixReplies(name, action_id) ==
    CASE name = "firewall_checker" ->
            IF action_id = "enable_firewall"
            THEN {Ok(FixResult(TRUE, Message("Windows Firewall enabled successfully", ""))),
                  Err(Message("Failed to enable firewall", "")),
                  Err(Message("Firewall fix only implemented for Windows", ""))}
            ELSE {Err(Message("Unknown fix action", action_id))}
      [] name = "bottleneck_analyzer" ->
            IF action_id = "show_ssd_guide"
            THEN {Ok(FixResult(TRUE, Message("SSD Upgrade Guide", "")))}
            ELSE {Err(Message("Unknown bottleneck fix", action_id))}
      [] name = "Storage & Drive Health" ->
            {Err(Message("Storage issues require manual intervention", ""))}
      [] OTHER -> {Err(Message("Fix not implemented for", action_id))}

-----------------------------------------------------------------------------
(* ScannerEngine *)

should_run(cat, options) ==
    CASE cat = "Security" -> options.security
      [] cat = "Performance" -> options.performance
      [] OTHER -> TRUE

\* the loop over self.checkers in scan, after its first n iterations; a panic
\* in run unwinds out of scan, so no later iteration happens
RECURSIVE RunCheckers(_, _, _, _)
RunCheckers(cs, options, out, n) ==
    IF n = 0
    THEN [all_issues |-> <<>>, invoked |-> <<>>, panicked |-> FALSE]
    ELSE LET prev == RunCheckers(cs, options, out, n - 1)
         IN  IF prev.panicked
             THEN [prev EXCEPT !.invoked = Append(@, FALSE)]
             ELSE IF ~should_run(category(cs[n]), options)
             THEN [prev EXCEPT !.invoked = Append(@, FALSE)]
             ELSE IF out[n].panic
             THEN [prev EXCEPT !.invoked = Append(@, TRUE), !.panicked = TRUE]
             ELSE [prev EXCEPT !.invoked = Append(@, TRUE),
                               !.all_issues = @ \o out[n].issues]

severity_score(issue) ==
    CASE issue.severity = "Critical" -> 0
      [] issue.severity = "Warning" -> 1
      [] issue.severity = "Info" -> 2

\* mutant: x goes in front of the elements of equal key
RECURSIVE InsertByKey_BeforeEqual(_, _)
InsertByKey_BeforeEqual(sorted, x) ==
    IF sorted = <<>> THEN <<x>>
    ELSE IF severity_score(sorted[Len(sorted)]) < severity_score(x)
         THEN Append(sorted, x)
         ELSE Append(InsertByKey_BeforeEqual(SubSeq(sorted, 1, Len(sorted) - 1), x),
                     sorted[Len(sorted)])

\* insert x behind every element whose key is not greater (keeps ties in order)
RECURSIVE InsertByKey(_, _)
InsertByKey(sorted, x) ==
    IF sorted = <<>> THEN <<x>>
    ELSE IF severity_score(sorted[Len(sorted)]) <= severity_score(x)
         THEN Append(sorted, x)
         ELSE Append(InsertByKey(SubSeq(sorted, 1, Len(sorted) - 1), x),
                     sorted[Len(sorted)])

\* all_issues.sort_by_key(severity_score): slice::sort_by_key is a stable sort
RECURSIVE sort_by_key(_)
sort_by_key(list) ==
    IF list = <<>> THEN <<>>
    ELSE InsertByKey(sort_by_key(SubSeq(list, 1, Len(list) - 1)), list[Len(list)])

NoResult == [scan_id |-> 0, issues |-> <<>>, scores |-> SystemScores(0, 0)]

NoCall ==
    [op |-> "none", returned |-> FALSE, options |-> DefaultScanOptions,
     out |-> <<>>, invoked |-> <<>>, result |-> NoResult,
     action_id |-> "", replies |-> <<>>, fix_result |-> FixResult(FALSE, Message("", ""))]

\* mutant: the same identifier every time
new_v4_Repeated(existing) == 1

\* uuid::Uuid::new_v4, for a caller that can compare the value with those of
\* `existing`: a random UUID is taken to differ from every UUID in existence
new_v4(existing) ==
    CHOOSE id \in 1..(Cardinality(existing) + 1) : id \notin existing

\* mutant: the issues of equal severity_score are reported once
scan_OnePerSeverity(cs, options, out, scan_id) ==
    LET loop   == RunCheckers(cs, options, out, Len(cs))
        sorted == sort_by_key(loop.all_issues)
        kept   == SelectSeq(sorted,
                            LAMBDA x : x = (CHOOSE y \in {sorted[k] : k \in DOMAIN sorted} :
                                               severity_score(y) = severity_score(x)))
    IN  [NoCall EXCEPT
            !.op = "scan",
            !.options = options,
            !.out = out,
            !.invoked = loop.invoked,
            !.returned = ~loop.panicked,
            !.result = IF loop.panicked THEN NoResult
                       ELSE [scan_id |-> scan_id, issues |-> kept,
                             scores |-> calculate_scores(kept)]]

\* ScannerEngine::scan with the checkers behaving as `out` says and new_v4
\* giving scan_id: the record of the call; returned is FALSE when a panic
\* unwound out of it
scan(cs, options, out, scan_id) ==
    LET loop   == RunCheckers(cs, options, out, Len(cs))
        sorted == sort_by_key(loop.all_issues)
    IN  [NoCall EXCEPT
            !.op = "scan",
            !.options = options,
            !.out = out,
            !.invoked = loop.invoked,
            !.returned = ~loop.panicked,
            !.result = IF loop.panicked THEN NoResult
                       ELSE [scan_id |-> scan_id, issues |-> sorted,
                             scores |-> calculate_scores(sorted)]]

\* the loop of fix_issue: the number of checkers whose fix is called, given
\* the replies rep[1..Len(cs)] they would give (the first Ok reply ends it)
RECURSIVE Probed(_, _)
Probed(rep, n) ==
    IF n > Len(rep) THEN Len(rep)
    ELSE IF rep[n].ok THEN n
    ELSE Probed(rep, n + 1)

\* mutant: when no checker replies Ok, the last checker's error is returned
fix_issue_LastError(cs, action_id, rep) ==
    LET k == Probed(rep, 1)
    IN  [NoCall EXCEPT
            !.op = "fix",
            !.returned = TRUE,
            !.action_id = action_id,
            !.replies = SubSeq(rep, 1, k),
            !.fix_result =
                IF k >= 1 /\ rep[k].ok THEN rep[k].result
                ELSE IF k >= 1 THEN FixResult(FALSE, rep[k].err)
                ELSE FixResult(FALSE, Message("No handler found for action", action_id))]

\* ScannerEngine::fix_issue with the checkers replying as `rep` says
fix_issue(cs, action_id, rep) ==
    LET k == Probed(rep, 1)
    IN  [NoCall EXCEPT
            !.op = "fix",
            !.returned = TRUE,
            !.action_id = action_id,
            !.replies = SubSeq(rep, 1, k),
            !.fix_result =
                IF k >= 1 /\ rep[k].ok THEN rep[k].result
                ELSE FixResult(FALSE, Message("No handler found for action", action_id))]

\* the action ids fix_issue is called with
ActionIds ==
    {"enable_firewall", "show_ssd_guide", "optimize_startup", "nonexistent_action"}

\* every way the first n checkers of cs can behave in one scan
RECURSIVE RunBehaviours(_, _, _)
RunBehaviours(cs, options, n) ==
    IF n = 0 THEN {<<>>}
    ELSE {Append(out, o) : out \in RunBehaviours(cs, options, n - 1),
                           o \in RunOutcomes(cs[n], options)}

\* every way the first n checkers of cs can reply to fix(action_id)
RECURSIVE FixBehaviours(_, _, _)
FixBehaviours(cs, action_id, n) ==
    IF n = 0 THEN {<<>>}
    ELSE {Append(rep, r) : rep \in FixBehaviours(cs, action_id, n - 1),
                           r \in FixReplies(cs[n], action_id)}

\* ScannerEngine::new
EngineInit ==
    /\ checkers = <<>>
    /\ last = NoCall

\* ScannerEngine::register
Register ==
    /\ Len(checkers) < MaxCheckers
    /\ \E name \in CheckerNames : checkers' = Append(checkers, name)
    /\ UNCHANGED <<last, issues, scores, license_vars, key_vars, daemon_vars, command_vars,
                   conns, gui>>

\* ScannerEngine::scan. Calls of the engine are synchronous and take &self:
\* the caller makes one call at a time, and `last` is the call it is looking at
Scan ==
    /\ last.op = "none"
    /\ \E options \in ScanOptions :
          \E out \in RunBehaviours(checkers, options, Len(checkers)) :
             last' = scan(checkers, options, out, new_v4({}))
    /\ UNCHANGED <<checkers, issues, scores, license_vars, key_vars, daemon_vars, command_vars,
                   conns, gui>>

\* ScannerEngine::fix_issue
FixIssue ==
    /\ last.op = "none"
    /\ \E action_id \in ActionIds :
          \E rep \in FixBehaviours(checkers, action_id, Len(checkers)) :
             last' = fix_issue(checkers, action_id, rep)
    /\ UNCHANGED <<checkers, issues, scores, license_vars, key_vars, daemon_vars, command_vars,
                   conns, gui>>

\* the caller is done with what the call returned
DropResult ==
    /\ last.op # "none"
    /\ last' = NoCall
    /\ UNCHANGED <<checkers, issues, scores, license_vars, key_vars, daemon_vars, command_vars,
                   conns, gui>>

-----------------------------------------------------------------------------
(* License (agent/src/license.rs): tiers, expiry and the license file *)

LicenseTier == {"Free", "Trial", "Pro"}

\* Option<T>
None == [some |-> FALSE]

Some(v) == [some |-> TRUE, value |-> v]

License(key, tier, activated_at, expires_at) ==
    [key |-> key, tier |-> tier, activated_at |-> activated_at,
     expires_at |-> expires_at]

\* License::default(), built at time t
DefaultLicense(t) == License(None, "Free", t, None)

\* let trial_duration = 14 * 86400
TrialDuration == 14 * 86400

\* mutant: a trial counts as expired from the second it ends
is_trial_expired_AtExpiry(license, t) ==
    /\ license.tier = "Trial"
    /\ license.expires_at.some
    /\ t >= license.expires_at.value

\* License::is_trial_expired, evaluated at time t
is_trial_expired(license, t) ==
    IF license.tier # "Trial" THEN FALSE
    ELSE IF license.expires_at.some THEN t > license.expires_at.value
    ELSE FALSE

\* mutant: the stored tier is returned whatever the time
effective_tier_Stored(license, t) == license.tier

\* License::effective_tier, evaluated at time t
effective_tier(license, t) ==
    IF license.tier = "Trial" /\ is_trial_expired(license, t) THEN "Free"
    ELSE license.tier

\* mutant: the capability is read from the stored tier
has_pro_feature_RawTier(license, feature, t) ==
    feature = "Automation" /\ license.tier \in {"Pro", "Trial"}

\* License::has_pro_feature, evaluated at time t
has_pro_feature(license, feature, t) ==
    LET tier == effective_tier(license, t)
    IN  feature = "Automation" /\ tier \in {"Pro", "Trial"}

-----------------------------------------------------------------------------
(* License keys: strings are sequences of characters *)

\* the characters with a value under char::to_digit(36), by value
Digits36 ==
    <<"0", "1", "2", "3", "4", "5", "6", "7", "8", "9",
      "A", "B", "C", "D", "E", "F", "G", "H", "I", "J", "K", "L", "M",
      "N", "O", "P", "Q", "R", "S", "T", "U", "V", "W", "X", "Y", "Z">>

LowerCase ==
    <<"a", "b", "c", "d", "e", "f", "g", "h", "i", "j", "k", "l", "m",
      "n", "o", "p", "q", "r", "s", "t", "u", "v", "w", "x", "y", "z">>

\* the upper-case form of the lower-case letters
UpperOf == [c \in {LowerCase[k] : k \in 1..26} |->
               Digits36[10 + (CHOOSE k \in 1..26 : LowerCase[k] = c)]]

\* char::to_uppercase on the characters used
CharToUpper(c) ==
    IF c \in DOMAIN UpperOf THEN UpperOf[c]
    ELSE IF c = "é" THEN "É" ELSE c

\* str::to_uppercase
to_uppercase(str) == [k \in 1..Len(str) |-> CharToUpper(str[k])]

\* the value of every character that is a digit in base 36
DigitValue ==
    [c \in {Digits36[k] : k \in 1..36} \cup {LowerCase[k] : k \in 1..26} |->
        IF \E k \in 1..36 : Digits36[k] = c
        THEN (CHOOSE k \in 1..36 : Digits36[k] = c) - 1
        ELSE (CHOOSE k \in 1..26 : LowerCase[k] = c) + 9]

\* char::to_digit(36): Some(value) for 0-9, a-z and A-Z, else None
to_digit(c) == IF c \in DOMAIN DigitValue THEN Some(DigitValue[c]) ELSE None

\* the UTF-8 length of a character
Utf8Len(c) == IF c \in {"é", "É"} THEN 2 ELSE 1

\* char::is_ascii
IsAscii(c) == Utf8Len(c) = 1

\* char::is_alphanumeric: a letter or digit of any script
IsAlphanumeric(c) == to_digit(c).some \/ c \in {"é", "É"}

\* str::len(), in bytes
RECURSIVE ByteLen(_)
ByteLen(str) ==
    IF str = <<>> THEN 0 ELSE Utf8Len(Head(str)) + ByteLen(Tail(str))

\* key.split('-').collect(): the pieces between the dashes, empty ones kept
RECURSIVE Split(_)
Split(str) ==
    IF \A k \in 1..Len(str) : str[k] # "-" THEN <<str>>
    ELSE LET d == CHOOSE k \in 1..Len(str) :
                     str[k] = "-" /\ \A j \in 1..(k - 1) : str[j] # "-"
         IN  <<SubSeq(str, 1, d - 1)>> \o Split(SubSeq(str, d + 1, Len(str)))

\* segments.join("-")
RECURSIVE Join(_)
Join(parts) ==
    IF parts = <<>> THEN <<>>
    ELSE IF Len(parts) = 1 THEN parts[1]
    ELSE parts[1] \o <<"-">> \o Join(Tail(parts))

\* combined.chars().filter_map(|c| c.to_digit(36)).sum()
RECURSIVE DigitSum(_)
DigitSum(str) ==
    IF str = <<>> THEN 0
    ELSE (IF to_digit(Head(str)).some THEN to_digit(Head(str)).value ELSE 0)
            + DigitSum(Tail(str))

\* mutant: the checksum is read from the first character of the segment
verify_checksum_FirstChar(segments, checksum_segment) ==
    IF checksum_segment = <<>> THEN FALSE
    ELSE LET d == to_digit(checksum_segment[1])
         IN  d.some /\ DigitSum(segments[1] \o segments[2] \o segments[3]) % 36 = d.value

\* LicenseManager::verify_checksum
verify_checksum(segments, checksum_segment) ==
    LET sum == DigitSum(segments[1] \o segments[2] \o segments[3])
    IN  IF checksum_segment = <<>> THEN FALSE
        ELSE LET expected == to_digit(checksum_segment[Len(checksum_segment)])
             IN  IF expected.some THEN sum % 36 = expected.value ELSE FALSE

\* LicenseManager::validate_key
validate_key(key) ==
    LET parts == Split(key)
    IN  IF Len(parts) # 5 THEN FALSE
        ELSE IF parts[1] # <<"H", "S", "P", "C">> THEN FALSE
        ELSE IF \E n \in 2..5 :
                   \/ ByteLen(parts[n]) # 4
                   \/ \E k \in 1..Len(parts[n]) :
                         ~(IsAlphanumeric(parts[n][k]) /\ IsAscii(parts[n][k]))
             THEN FALSE
        ELSE verify_checksum(SubSeq(parts, 2, 4), parts[5])

-----------------------------------------------------------------------------
(* LicenseManager: the license file and the operations on it *)

\* license_path does not exist
NoFile == [exists |-> FALSE]

\* the file holds something that is not a JSON object
Malformed == [exists |-> TRUE, content |-> [object |-> FALSE]]

\* mutant: the expiry is not written
save_WithoutExpiry(license) ==
    [exists |-> TRUE,
     content |-> [object |-> TRUE,
                  fields |-> [key |-> IF license.key.some
                                      THEN [type |-> "string", value |-> license.key.value]
                                      ELSE [type |-> "null"],
                              tier |-> [type |-> "string", value |-> license.tier],
                              activated_at |-> [type |-> "number",
                                                value |-> license.activated_at],
                              expires_at |-> [type |-> "null"]]]]

\* LicenseManager::save: the file holds what serde_json::to_string_pretty
\* writes for the derived Serialize of License, a JSON object of four
\* fields: an Option as null or the value, a LicenseTier as the name of the
\* variant, an i64 as a number. Creating the directory and writing the file
\* are taken to succeed.
save(license) ==
    LET option(o, type) == IF o.some THEN [type |-> type, value |-> o.value]
                           ELSE [type |-> "null"]
    IN  [exists |-> TRUE,
         content |-> [object |-> TRUE,
                      fields |-> [key |-> option(license.key, "string"),
                                  tier |-> [type |-> "string", value |-> license.tier],
                                  activated_at |-> [type |-> "number",
                                                    value |-> license.activated_at],
                                  expires_at |-> option(license.expires_at, "number")]]]

\* LicenseManager::load, at time t: serde_json::from_str of the content for
\* the derived Deserialize of License. Anything but an object whose fields
\* have the types of License, tier being the name of a variant, is an error
load(file, t) ==
    LET option(v) == IF v.type = "null" THEN None ELSE Some(v.value)
        fields    == file.content.fields
    IN  IF ~file.exists THEN Ok(DefaultLicense(t))
        ELSE IF /\ file.content.object
                /\ fields.key.type \in {"null", "string"}
                /\ fields.tier.type = "string"
                /\ fields.tier.value \in {"Free", "Trial", "Pro"}
                /\ fields.activated_at.type = "number"
                /\ fields.expires_at.type \in {"null", "number"}
        THEN Ok(License(option(fields.key), fields.tier.value,
                        fields.activated_at.value, option(fields.expires_at)))
        ELSE Err(Message("Failed to parse license file", ""))

\* what an operation leaves in the file and what it returns
Outcome(file, result) == [file |-> file, result |-> result]

\* mutant: the key is stored without being validated
activate_pro_Unchecked(file, key, t) ==
    LET license == License(Some(to_uppercase(key)), "Pro", t, None)
    IN  Outcome(save(license), Ok(license))

\* LicenseManager::activate_pro, at time t
activate_pro(file, key, t) ==
    IF ~validate_key(key)
    THEN Outcome(file, Err(Message("Invalid license key format", "")))
    ELSE LET license == License(Some(to_uppercase(key)), "Pro", t, None)
         IN  Outcome(save(license), Ok(license))

\* mutant: an expired trial is replaced by a fresh one
start_trial_RenewExpired(file, t) ==
    LET current == load(file, t)
        fresh == License(None, "Trial", t, Some(t + TrialDuration))
    IN  IF ~current.ok THEN Outcome(file, current)
        ELSE IF current.result.tier = "Pro"
        THEN Outcome(file, Err(Message("Pro license is already active", "")))
        ELSE IF current.result.tier = "Trial" /\ ~is_trial_expired(current.result, t)
        THEN Outcome(file, Ok(current.result))
        ELSE Outcome(save(fresh), Ok(fresh))

\* mutant: the expiry is the trial duration alone, not counted from now
start_trial_DurationOnly(file, t) ==
    LET current == load(file, t)
        fresh == License(None, "Trial", t, Some(TrialDuration))
    IN  IF ~current.ok THEN Outcome(file, current)
        ELSE IF current.result.tier = "Pro"
        THEN Outcome(file, Err(Message("Pro license is already active", "")))
        ELSE IF current.result.tier = "Trial"
        THEN IF is_trial_expired(current.result, t)
             THEN Outcome(file, Err(Message("Trial period has expired. Please upgrade to Pro.", "")))
             ELSE Outcome(file, Ok(current.result))
        ELSE Outcome(save(fresh), Ok(fresh))

\* mutant: a trial still running is issued again from now
start_trial_Reissue(file, t) ==
    LET current == load(file, t)
        fresh == License(None, "Trial", t, Some(t + TrialDuration))
    IN  IF ~current.ok THEN Outcome(file, current)
        ELSE IF current.result.tier = "Pro"
        THEN Outcome(file, Err(Message("Pro license is already active", "")))
        ELSE IF current.result.tier = "Trial" /\ is_trial_expired(current.result, t)
        THEN Outcome(file, Err(Message("Trial period has expired. Please upgrade to Pro.", "")))
        ELSE Outcome(save(fresh), Ok(fresh))

\* mutant: a trial is issued whatever license is stored
start_trial_Always(file, t) ==
    LET fresh == License(None, "Trial", t, Some(t + TrialDuration))
    IN  Outcome(save(fresh), Ok(fresh))

\* LicenseManager::start_trial, at time t
start_trial(file, t) ==
    LET current == load(file, t)
        fresh == License(None, "Trial", t, Some(t + TrialDuration))
    IN  IF ~current.ok THEN Outcome(file, current)
        ELSE IF current.result.tier = "Pro"
        THEN Outcome(file, Err(Message("Pro license is already active", "")))
        ELSE IF current.result.tier = "Trial"
        THEN IF is_trial_expired(current.result, t)
             THEN Outcome(file, Err(Message("Trial period has expired. Please upgrade to Pro.", "")))
             ELSE Outcome(file, Ok(current.result))
        ELSE Outcome(save(fresh), Ok(fresh))

\* mutant: the key of the license replaced is kept
downgrade_to_free_KeepKey(file, t) ==
    LET old == load(file, t)
        license == IF old.ok THEN License(old.result.key, "Free", t, None)
                   ELSE DefaultLicense(t)
    IN  Outcome(save(license), Ok(license))

\* LicenseManager::downgrade_to_free, at time t
downgrade_to_free(file, t) ==
    LET license == DefaultLicense(t)
    IN  Outcome(save(license), Ok(license))

\* the license check of the automation scheduler: load the license and ask
\* it for the Automation capability
check_license(file, t) ==
    LET loaded == load(file, t)
    IN  IF ~loaded.ok THEN Outcome(file, loaded)
        ELSE Outcome(file,
                     Ok([tier |-> effective_tier(loaded.result, t),
                         automation |-> has_pro_feature(loaded.result, "Automation", t)]))

\* a call on the manager: the operation, its key, the time it was made at,
\* the file before it, and what it left and returned
Call(op, key, t, before, outcome) ==
    [op |-> op, key |-> key, at |-> t, before |-> before,
     after |-> outcome.file, result |-> outcome.result]

\* the time the model starts at
StartTime == 40 * 86400

\* the seconds that pass before a call: none, one, or a whole trial period
Delays == {0, 1, TrialDuration}

\* keys handed to activate_pro: one whose checksum holds (payload in lower
\* case), the key of test_key_validation, and one of the wrong shape
GoodKey ==
    <<"H", "S", "P", "C", "-", "1", "2", "3", "4", "-", "5", "6", "7", "8", "-",
      "9", "a", "b", "c", "-", "D", "E", "F", "6">>

TestKey ==
    <<"H", "S", "P", "C", "-", "1", "2", "3", "4", "-", "5", "6", "7", "8", "-",
      "9", "A", "B", "C", "-", "D", "E", "F", "0">>

ShortKey == <<"I", "N", "V", "A", "L", "I", "D", "-", "K", "E", "Y">>

LicenseKeys == {GoodKey, TestKey, ShortKey}

\* what license_path can hold when the manager is created: nothing, an
\* unreadable file, or a License written earlier or edited by hand
InitialFiles ==
    {NoFile, Malformed,
     save(License(None, "Free", StartTime - 86400, None)),
     save(License(None, "Free", StartTime - 86400, Some(StartTime - 1))),
     save(License(None, "Trial", StartTime - TrialDuration, Some(StartTime))),
     save(License(None, "Trial", StartTime - TrialDuration, None)),
     save(License(Some(to_uppercase(GoodKey)), "Pro", StartTime - 86400, None)),
     save(License(Some(to_uppercase(GoodKey)), "Pro", StartTime - 86400,
                  Some(StartTime - 1)))}

\* LicenseManager::new; the file can also be a JSON object whose tier names
\* no variant of LicenseTier
LicenseInit ==
    /\ license_file \in InitialFiles
                          \cup {[save(DefaultLicense(StartTime - 86400))
                                    EXCEPT !.content.fields.tier.value = "Premium"]}
    /\ now = StartTime
    /\ license_calls = <<>>

\* no LicenseManager in this specification
LicenseIdle ==
    /\ license_file = NoFile
    /\ now = StartTime
    /\ license_calls = <<>>

\* a call returns: the clock has moved on by d, the file and the record of
\* calls are as the operation leaves them
Called(op, key, d, outcome) ==
    /\ now' = now + d
    /\ license_file' = outcome.file
    /\ license_calls' = Append(license_calls, Call(op, key, now + d, license_file, outcome))

StartTrial ==
    /\ Len(license_calls) < MaxCalls
    /\ \E d \in Delays :
          Called("start_trial", <<>>, d, start_trial(license_file, now + d))
    /\ UNCHANGED <<issues, scores, checkers, last, key_vars, daemon_vars, command_vars,
                   conns, gui>>

ActivatePro ==
    /\ Len(license_calls) < MaxCalls
    /\ \E d \in Delays, key \in LicenseKeys :
          Called("activate_pro", key, d, activate_pro(license_file, key, now + d))
    /\ UNCHANGED <<issues, scores, checkers, last, key_vars, daemon_vars, command_vars,
                   conns, gui>>

DowngradeToFree ==
    /\ Len(license_calls) < MaxCalls
    /\ \E d \in Delays :
          Called("downgrade_to_free", <<>>, d, downgrade_to_free(license_file, now + d))
    /\ UNCHANGED <<issues, scores, checkers, last, key_vars, daemon_vars, command_vars,
                   conns, gui>>

CheckLicense ==
    /\ Len(license_calls) < MaxCalls
    /\ \E d \in Delays :
          Called("check_license", <<>>, d, check_license(license_file, now + d))
    /\ UNCHANGED <<issues, scores, checkers, last, key_vars, daemon_vars, command_vars,
                   conns, gui>>

-----------------------------------------------------------------------------
(* validate_key on keys put together from segments *)

\* the segments keys are joined from: the prefix in both cases, payload and
\* checksum segments, and segments of a wrong character or a wrong length
KeySegments ==
    {<<"H", "S", "P", "C">>, <<"h", "s", "p", "c">>,
     <<"1", "2", "3", "4">>, <<"5", "6", "7", "8">>, <<"9", "a", "b", "c">>,
     <<"D", "E", "F", "6">>, <<"D", "E", "F", "0">>,
     <<"1", "2", "_", "4">>, <<"1", "2", "3">>, <<"é", "2", "3">>}

\* no key validated in this specification
KeyIdle ==
    /\ key_parts = <<>>
    /\ key_valid = FALSE

\* a caller joins one more segment to the key and has it validated
ValidateKey ==
    /\ Len(key_parts) < MaxSegments
    /\ \E seg \in KeySegments :
          /\ key_parts' = Append(key_parts, seg)
          /\ key_valid' = validate_key(Join(key_parts'))
    /\ UNCHANGED <<issues, scores, checkers, last, license_vars, daemon_vars, command_vars,
                   conns, gui>>

-----------------------------------------------------------------------------
(* Db: the store of automation settings and scan results *)

\* AutomationSettings
AutomationSettings(automation_enabled, run_schedule, auto_fix_enabled) ==
    [automation_enabled |-> automation_enabled, run_schedule |-> run_schedule,
     auto_fix_enabled |-> auto_fix_enabled]

\* AutomationSettings::default()
DefaultAutomationSettings == AutomationSettings(FALSE, "weekly", FALSE)

\* the schedules set_automation_settings lets into the store
Schedules == {"daily", "weekly", "monthly"}

\* Db::get_automation_settings
get_automation_settings(store) ==
    IF store.settings.some THEN store.settings.value ELSE DefaultAutomationSettings

\* SELECT MAX(timestamp) over the first n rows
RECURSIVE MaxTimestamp(_, _)
MaxTimestamp(scans, n) ==
    IF n = 1 THEN scans[1].timestamp
    ELSE LET m == MaxTimestamp(scans, n - 1)
         IN  IF scans[n].timestamp > m THEN scans[n].timestamp ELSE m

\* Db::last_scan_timestamp
last_scan_timestamp(store) ==
    IF store.scans = <<>> THEN None
    ELSE Some(MaxTimestamp(store.scans, Len(store.scans)))

\* the PRIMARY KEY of the scans table
scans_primary_key(row) == row.scan_id

\* mutant: plain INSERT, whatever rows there are
save_scan_Insert(store, timestamp, result) ==
    [store EXCEPT !.scans = Append(@, [scan_id |-> result.scan_id,
                                       timestamp |-> timestamp, result |-> result])]

\* Db::save_scan of the ScanResult with that timestamp. INSERT OR REPLACE
\* deletes the rows whose key is that of the new row, then inserts it
save_scan(store, timestamp, result) ==
    LET row  == [scan_id |-> result.scan_id, timestamp |-> timestamp, result |-> result]
        kept == SelectSeq(store.scans,
                          LAMBDA r : scans_primary_key(r) # scans_primary_key(row))
    IN  [store EXCEPT !.scans = Append(kept, row)]

-----------------------------------------------------------------------------
(* The automation scheduler (agent/src/daemon.rs) *)

\* SLEEP_INTERVAL, in seconds
SLEEP_INTERVAL == 3600

\* build_scanner_engine: of the checkers it registers, in its order, the one
\* whose fix can succeed, the one that reports an auto-fixable issue beside
\* one that is not, and the one that can panic
build_scanner_engine ==
    <<"firewall_checker", "startup_analyzer", "Storage & Drive Health">>

\* mutant: every schedule is a daily one
required_interval_seconds_Daily(run_schedule) == 86400

\* required_interval_seconds
required_interval_seconds(run_schedule) ==
    CASE run_schedule = "daily" -> 86400
      [] run_schedule = "weekly" -> 7 * 86400
      [] run_schedule = "monthly" -> 30 * 86400
      [] OTHER -> 7 * 86400

\* mutant: the scan is due only after the interval has been exceeded
should_run_scan_After(settings, last_scan, t) ==
    IF ~settings.automation_enabled THEN FALSE
    ELSE IF last_scan.some
         THEN t > last_scan.value + required_interval_seconds(settings.run_schedule)
         ELSE TRUE

\* should_run_scan, once last_scan_timestamp has returned Ok(last_scan)
should_run_scan(settings, last_scan, t) ==
    IF ~settings.automation_enabled THEN FALSE
    ELSE IF last_scan.some
         THEN t >= last_scan.value + required_interval_seconds(settings.run_schedule)
         ELSE TRUE

\* ScannerEngine::scan_with_license: the full scan of the engine, run for the
\* holder of the license
scan_with_license(cs, options, license, out, scan_id) ==
    scan(cs, options, out, scan_id)

\* the action ids of the fixes the scheduler's checkers attach to issues
FixActionIds ==
    UNION {{o.issues[k].fix.action_id : k \in 1..Len(o.issues)} :
              o \in UNION {RunOutcomes(build_scanner_engine[n], DefaultScanOptions) :
                              n \in 1..Len(build_scanner_engine)}}

\* every way the checkers can reply to the fixes of one iteration: for each
\* action id in ids, the replies to fix_issue(action_id)
RECURSIVE FixEnvironments(_, _)
FixEnvironments(cs, ids) ==
    IF ids = {} THEN {<<>>}
    ELSE LET a == CHOOSE x \in ids : TRUE
         IN  {(a :> rep) @@ f : rep \in FixBehaviours(cs, a, Len(cs)),
                                f \in FixEnvironments(cs, ids \ {a})}

\* mutant: every issue that carries a FixAction is fixed
RECURSIVE auto_fix_AnyFix(_, _, _, _)
auto_fix_AnyFix(cs, result_issues, reps, n) ==
    IF n = 0 THEN <<>>
    ELSE LET prev  == auto_fix_AnyFix(cs, result_issues, reps, n - 1)
             issue == result_issues[n]
         IN  IF issue.fix # NoFix
             THEN Append(prev, [issue_id |-> issue.id,
                                call |-> fix_issue(cs, issue.fix.action_id,
                                                   reps[issue.fix.action_id])])
             ELSE prev

\* mutant: the loop ends at the first fix that fails
RECURSIVE auto_fix_StopAtFailure(_, _, _, _)
auto_fix_StopAtFailure(cs, result_issues, reps, n) ==
    IF n = 0 THEN <<>>
    ELSE LET prev  == auto_fix_StopAtFailure(cs, result_issues, reps, n - 1)
             issue == result_issues[n]
         IN  IF /\ issue.fix # NoFix /\ issue.fix.is_auto_fix
                /\ \A k \in DOMAIN prev : prev[k].call.fix_result.success
             THEN Append(prev, [issue_id |-> issue.id,
                                call |-> fix_issue(cs, issue.fix.action_id,
                                                   reps[issue.fix.action_id])])
             ELSE prev

\* the auto-fix loop over result.issues, after its first n iterations: the
\* attempts made, in order
RECURSIVE auto_fix(_, _, _, _)
auto_fix(cs, result_issues, reps, n) ==
    IF n = 0 THEN <<>>
    ELSE LET prev  == auto_fix(cs, result_issues, reps, n - 1)
             issue == result_issues[n]
         IN  IF issue.fix # NoFix /\ issue.fix.is_auto_fix
             THEN Append(prev, [issue_id |-> issue.id,
                                call |-> fix_issue(cs, issue.fix.action_id,
                                                   reps[issue.fix.action_id])])
             ELSE prev

\* what the store and the host do to one iteration: the step of the store
\* that fails, if one does, what the checkers find and how they reply to fixes
Faults == {"none", "open", "settings", "due", "save"}

\* the record of one iteration: what it did, in order, and how it ended.
\* calls: the calls it made on the engine and, to save, on the store, in the
\* order it made them, each with its argument
NoIteration ==
    [at |-> 0, opened |-> FALSE, settings_read |-> FALSE,
     settings |-> DefaultAutomationSettings,
     license_loaded |-> FALSE, license |-> Err(Message("", "")),
     due_checked |-> FALSE, due |-> FALSE,
     scan |-> NoCall, fixes |-> <<>>,
     save_called |-> FALSE, saved |-> FALSE,
     calls |-> <<>>,
     ret |-> "none", err |-> ""]

\* mutant: the result is saved only when no fix failed
scan_and_save_SaveIfFixed(store, settings, license, t, env, trace) ==
    LET engine == build_scanner_engine
        call   == scan_with_license(engine, DefaultScanOptions, license, env.out,
                                    new_v4({store.scans[k].scan_id :
                                               k \in DOMAIN store.scans}))
        t1     == [trace EXCEPT !.scan = call,
                                !.calls = <<[op |-> "scan_with_license",
                                             arg |-> DefaultScanOptions]>>]
    IN  IF ~call.returned
        THEN [store |-> store, trace |-> [t1 EXCEPT !.ret = "Panic"]]
        ELSE LET result == call.result
                 fixes  == IF settings.auto_fix_enabled
                           THEN auto_fix(engine, result.issues, env.reps,
                                         Len(result.issues))
                           ELSE <<>>
                 log    == [k \in DOMAIN fixes |->
                               [op |-> "fix_issue", arg |-> fixes[k].issue_id]]
                 t2     == [t1 EXCEPT
                               !.fixes = fixes,
                               !.save_called = TRUE,
                               !.calls = @ \o log
                                           \o <<[op |-> "save_scan", arg |-> result]>>]
             IN  IF \E k \in DOMAIN fixes : ~fixes[k].call.fix_result.success
                 THEN [store |-> store,
                       trace |-> [t1 EXCEPT !.fixes = fixes, !.calls = @ \o log,
                                            !.ret = "Ok"]]
                 ELSE IF env.fault = "save"
                 THEN [store |-> store, trace |-> [t2 EXCEPT !.ret = "Err", !.err = "save"]]
                 ELSE [store |-> save_scan(store, t, result),
                       trace |-> [t2 EXCEPT !.saved = TRUE, !.ret = "Ok"]]

\* mutant: the result is saved before the fixes are run
scan_and_save_SaveFirst(store, settings, license, t, env, trace) ==
    LET engine == build_scanner_engine
        call   == scan_with_license(engine, DefaultScanOptions, license, env.out,
                                    new_v4({store.scans[k].scan_id :
                                               k \in DOMAIN store.scans}))
        t1     == [trace EXCEPT !.scan = call,
                                !.calls = <<[op |-> "scan_with_license",
                                             arg |-> DefaultScanOptions]>>]
    IN  IF ~call.returned
        THEN [store |-> store, trace |-> [t1 EXCEPT !.ret = "Panic"]]
        ELSE LET result == call.result
                 fixes  == IF settings.auto_fix_enabled
                           THEN auto_fix(engine, result.issues, env.reps,
                                         Len(result.issues))
                           ELSE <<>>
                 t2     == [t1 EXCEPT
                               !.fixes = fixes,
                               !.save_called = TRUE,
                               !.calls = @ \o <<[op |-> "save_scan", arg |-> result]>>
                                           \o [k \in DOMAIN fixes |->
                                                 [op |-> "fix_issue",
                                                  arg |-> fixes[k].issue_id]]]
             IN  IF env.fault = "save"
                 THEN [store |-> store, trace |-> [t2 EXCEPT !.ret = "Err", !.err = "save"]]
                 ELSE [store |-> save_scan(store, t, result),
                       trace |-> [t2 EXCEPT !.saved = TRUE, !.ret = "Ok"]]

\* run_automation_iteration from build_scanner_engine on: the scan, the
\* auto-fix loop and save_scan
scan_and_save(store, settings, license, t, env, trace) ==
    LET engine == build_scanner_engine
        call   == scan_with_license(engine, DefaultScanOptions, license, env.out,
                                    new_v4({store.scans[k].scan_id :
                                               k \in DOMAIN store.scans}))
        t1     == [trace EXCEPT !.scan = call,
                                !.calls = <<[op |-> "scan_with_license",
                                             arg |-> DefaultScanOptions]>>]
    IN  IF ~call.returned
        THEN [store |-> store, trace |-> [t1 EXCEPT !.ret = "Panic"]]
        ELSE LET result == call.result
                 fixes  == IF settings.auto_fix_enabled
                           THEN auto_fix(engine, result.issues, env.reps,
                                         Len(result.issues))
                           ELSE <<>>
                 t2     == [t1 EXCEPT
                               !.fixes = fixes,
                               !.save_called = TRUE,
                               !.calls = @ \o [k \in DOMAIN fixes |->
                                                 [op |-> "fix_issue",
                                                  arg |-> fixes[k].issue_id]]
                                           \o <<[op |-> "save_scan", arg |-> result]>>]
             IN  IF env.fault = "save"
                 THEN [store |-> store, trace |-> [t2 EXCEPT !.ret = "Err", !.err = "save"]]
                 ELSE [store |-> save_scan(store, t, result),
                       trace |-> [t2 EXCEPT !.saved = TRUE, !.ret = "Ok"]]

\* run_automation_iteration from the load of the license to the due check
check_license_and_schedule(store, settings, file, t, env, trace) ==
    LET loaded == load(file, t)
        t3 == [trace EXCEPT !.license_loaded = TRUE, !.license = loaded]
    IN  IF ~loaded.ok
        THEN [store |-> store, trace |-> [t3 EXCEPT !.ret = "Err", !.err = "license"]]
        ELSE IF ~has_pro_feature(loaded.result, "Automation", t)
        THEN [store |-> store, trace |-> [t3 EXCEPT !.ret = "Ok"]]
        ELSE
        LET t4 == [t3 EXCEPT !.due_checked = TRUE]
        IN  IF env.fault = "due"
            THEN [store |-> store, trace |-> [t4 EXCEPT !.ret = "Err", !.err = "due"]]
            ELSE
            LET due == should_run_scan(settings, last_scan_timestamp(store), t)
                t5  == [t4 EXCEPT !.due = due]
            IN  IF ~due
                THEN [store |-> store, trace |-> [t5 EXCEPT !.ret = "Ok"]]
                ELSE scan_and_save(store, settings, loaded.result, t, env, t5)

\* mutant: the iteration goes on when automation is disabled
run_automation_iteration_Undisabled(store, file, t, env) ==
    LET t0 == [NoIteration EXCEPT !.at = t]
    IN  IF env.fault = "open"
        THEN [store |-> store, trace |-> [t0 EXCEPT !.ret = "Err", !.err = "open"]]
        ELSE
        LET t1 == [t0 EXCEPT !.opened = TRUE]
        IN  IF env.fault = "settings"
            THEN [store |-> store, trace |-> [t1 EXCEPT !.ret = "Err", !.err = "settings"]]
            ELSE
            LET settings == get_automation_settings(store)
                t2 == [t1 EXCEPT !.settings_read = TRUE, !.settings = settings]
            IN  check_license_and_schedule(store, settings, file, t, env, t2)

\* run_automation_iteration, at time t, with the store and the host behaving
\* as env says
run_automation_iteration(store, file, t, env) ==
    LET t0 == [NoIteration EXCEPT !.at = t]
    IN  IF env.fault = "open"
        THEN [store |-> store, trace |-> [t0 EXCEPT !.ret = "Err", !.err = "open"]]
        ELSE
        LET t1 == [t0 EXCEPT !.opened = TRUE]
        IN  IF env.fault = "settings"
            THEN [store |-> store, trace |-> [t1 EXCEPT !.ret = "Err", !.err = "settings"]]
            ELSE
            LET settings == get_automation_settings(store)
                t2 == [t1 EXCEPT !.settings_read = TRUE, !.settings = settings]
            IN  IF ~settings.automation_enabled
                THEN [store |-> store, trace |-> [t2 EXCEPT !.ret = "Ok"]]
                ELSE check_license_and_schedule(store, settings, file, t, env, t2)

\* an iteration in which the checkers find nothing
QuietEnvironment(fault) ==
    [fault |-> fault,
     out   |-> [n \in 1..Len(build_scanner_engine) |-> Returned(<<>>)],
     reps  |-> CHOOSE reps \in FixEnvironments(build_scanner_engine, FixActionIds) : TRUE]

\* what the host can make of one iteration that starts at time t: a fault or
\* none, and, when the iteration gets as far as the scan, every behaviour of
\* the checkers in the scan and, when it gets as far as the fixes, in those
Environments(store, file, t) ==
    UNION {IF run_automation_iteration(store, file, t, QuietEnvironment(fault)).trace.scan.op = "scan"
           THEN [fault : {fault},
                 out   : RunBehaviours(build_scanner_engine, DefaultScanOptions,
                                       Len(build_scanner_engine)),
                 reps  : IF get_automation_settings(store).auto_fix_enabled
                         THEN FixEnvironments(build_scanner_engine, FixActionIds)
                         ELSE {QuietEnvironment(fault).reps}]
           ELSE {QuietEnvironment(fault)} : fault \in Faults}

\* the stores the daemon can find. settings: the automation_settings row, if
\* there is one, holding anything set_automation_settings writes. scans: the
\* rows of the scans table, oldest first: none, one scan made an interval
\* before the start or a second less than that, or two scans of which the
\* older was written last (the later one a second less than a day, or 30
\* days, before the start)
InitialStores ==
    LET row(ts) == [scan_id |-> ts, timestamp |-> ts,
                    result |-> [scan_id |-> ts, issues |-> <<>>,
                                scores |-> calculate_scores(<<>>)]]
    IN  [settings : {None} \cup
                    {Some(AutomationSettings(e, s, f)) :
                        e \in BOOLEAN, s \in Schedules, f \in BOOLEAN},
         scans : {<<>>}
                 \cup UNION {{<<row(StartTime - required_interval_seconds(s))>>,
                              <<row(StartTime - required_interval_seconds(s) + 1)>>} :
                                s \in Schedules}
                 \cup {<<row(StartTime - 86400 + 1), row(StartTime - 30 * 86400)>>,
                       <<row(StartTime - 30 * 86400), row(StartTime - 31 * 86400)>>}]

\* start_automation_daemon: the thread is at the top of its loop
DaemonInit ==
    /\ db \in InitialStores
    /\ daemon = [pc |-> "loop", iterations |-> 0, last |-> NoIteration]

\* no daemon in this specification
DaemonIdle ==
    /\ db = [settings |-> None, scans |-> <<>>]
    /\ daemon = [pc |-> "none", iterations |-> 0, last |-> NoIteration]

\* the body of the loop up to the sleep: one call of run_automation_iteration;
\* an Err is logged, a panic unwinds out of the loop and ends the thread
RunIteration ==
    /\ daemon.pc = "loop"
    /\ daemon.iterations < MaxIterations
    /\ \E env \in Environments(db, license_file, now) :
          LET it == run_automation_iteration(db, license_file, now, env)
          IN  /\ db' = it.store
              /\ daemon' = [pc |-> IF it.trace.ret = "Panic" THEN "exited" ELSE "sleep",
                            iterations |-> daemon.iterations + 1,
                            last |-> it.trace]
    /\ UNCHANGED <<issues, scores, checkers, last, license_vars, key_vars, command_vars,
                   conns, gui>>

\* thread::sleep(SLEEP_INTERVAL): the thread sleeps for at least the interval,
\* an hour, or a day when the machine was suspended meanwhile
Sleep ==
    /\ daemon.pc = "sleep"
    /\ \E slept \in {SLEEP_INTERVAL, 86400} : now' = now + slept
    /\ daemon' = [daemon EXCEPT !.pc = "loop"]
    /\ UNCHANGED <<issues, scores, checkers, last, license_file, license_calls,
                   key_vars, db, command_vars,
                   conns, gui>>

-----------------------------------------------------------------------------
(* External processes run by fix actions (agent/src/util/command.rs) *)

\* A fix action's use of child processes is a list of invocations: the
\* program, how the fix waits for it (Command::output, or run_with_timeout
\* with its deadline in seconds), and whether a failure of the invocation
\* makes the fix return Err.

\* FirewallChecker::fix("enable_firewall") on Windows: enable_windows_firewall
\* runs netsh with Command::output and does not look at its exit status
enable_windows_firewall ==
    <<[program |-> "netsh", how |-> "output", timeout |-> None,
       on_failure |-> "ignore"]>>

\* NetworkChecker::fix on Windows: get_active_network_adapter runs ipconfig
\* with Command::output, then the two netsh calls go through run_with_timeout;
\* the outcome of the second is dropped
network_fix ==
    <<[program |-> "ipconfig", how |-> "output", timeout |-> None,
       on_failure |-> "return_err"],
      [program |-> "netsh", how |-> "run_with_timeout", timeout |-> Some(5),
       on_failure |-> "return_err"],
      [program |-> "netsh", how |-> "run_with_timeout", timeout |-> Some(5),
       on_failure |-> "ignore"]>>

\* BloatwareDetector::fix on Windows: reg delete through run_with_timeout
bloatware_fix ==
    <<[program |-> "reg", how |-> "run_with_timeout", timeout |-> Some(3),
       on_failure |-> "return_err"]>>

\* no fix action is running
CommandIdle == proc = [state |-> "none"]

\* the invocation the fix is waiting on: the current one of its list, or,
\* after a timeout, run_with_timeout's taskkill, run with Command::output
Current ==
    IF proc.killing
    THEN [program |-> "taskkill", how |-> "output", timeout |-> None,
          on_failure |-> proc.commands[proc.step].on_failure]
    ELSE proc.commands[proc.step]

\* a fix action starts and spawns its first child
StartFix ==
    /\ proc.state = "none"
    /\ \E fix \in {enable_windows_firewall, network_fix, bloatware_fix} :
          proc' = [state |-> "waiting", commands |-> fix, step |-> 1, waited |-> 0,
                   elapsed |-> 0, killing |-> FALSE, timed_out |-> FALSE,
                   result |-> "none"]
    /\ UNCHANGED <<issues, scores, checkers, last, license_vars, key_vars, daemon_vars,
                   conns, gui>>

\* a second passes while the fix waits; recv_timeout lets none pass beyond
\* its deadline
Tick ==
    /\ proc.state = "waiting"
    /\ proc.elapsed < MaxWait
    /\ Current.timeout.some => proc.waited < Current.timeout.value
    /\ proc' = [proc EXCEPT !.waited = @ + 1, !.elapsed = @ + 1]
    /\ UNCHANGED <<issues, scores, checkers, last, license_vars, key_vars, daemon_vars,
                   conns, gui>>

\* the invocation the fix waits on is over, with success or not: the fix
\* returns Err, goes on to its next invocation, or returns Ok
Finished(ok) ==
    IF ~ok /\ Current.on_failure = "return_err"
    THEN [proc EXCEPT !.state = "returned", !.result = "Err", !.killing = FALSE]
    ELSE IF proc.step = Len(proc.commands)
    THEN [proc EXCEPT !.state = "returned", !.result = "Ok", !.killing = FALSE]
    ELSE [proc EXCEPT !.step = @ + 1, !.waited = 0, !.killing = FALSE]

\* the child exits and the wait on it returns its output; when the child is
\* taskkill, run_with_timeout then returns Err("process timeout")
ChildExits ==
    /\ proc.state = "waiting"
    /\ \E status \in BOOLEAN :
          proc' = Finished(status /\ ~proc.killing)
    /\ UNCHANGED <<issues, scores, checkers, last, license_vars, key_vars, daemon_vars,
                   conns, gui>>

\* run_with_timeout: recv_timeout gives up at the deadline, and taskkill is
\* run to end the child
Timeout ==
    /\ proc.state = "waiting"
    /\ ~proc.killing
    /\ Current.how = "run_with_timeout"
    /\ proc.waited = Current.timeout.value
    /\ proc' = [proc EXCEPT !.killing = TRUE, !.timed_out = TRUE, !.waited = 0]
    /\ UNCHANGED <<issues, scores, checkers, last, license_vars, key_vars, daemon_vars,
                   conns, gui>>


-----------------------------------------------------------------------------
(* Specification of the scoring engine alone *)

\* the issues scored: every severity and impact under an id of default weight
\* (as the tests use), the heaviest id (weight 2.0) at Critical under every
\* impact, and the id of fractional weight (0.8) at Warning and Info under
\* every impact
ScoreIssues ==
    {Issue("test_info", s, c, NoFix) : s \in IssueSeverity, c \in ImpactCategory}
    \cup {Issue("firewall_disabled", "Critical", c, NoFix) : c \in ImpactCategory}
    \cup {Issue("excessive_startup_items", s, c, NoFix) :
               s \in {"Warning", "Info"}, c \in ImpactCategory}

\* no SystemScores returned yet
NoScores == SystemScores(0 - 1, 0 - 1)

\* ScoringEngine::default(): nothing scored yet
ScoreInit ==
    /\ issues = <<>>
    /\ scores = NoScores
    /\ EngineInit
    /\ LicenseIdle
    /\ KeyIdle
    /\ DaemonIdle
    /\ CommandIdle
    /\ conns = "none"
    /\ gui = "none"

\* a caller has the empty issue list scored
ScoreEmpty ==
    /\ issues' = <<>>
    /\ scores' = calculate_scores(issues')
    /\ UNCHANGED <<checkers, last, license_vars, key_vars, daemon_vars, command_vars,
                   conns, gui>>

\* a caller adds an issue to its list and has the list scored
ScoreIssue ==
    /\ Len(issues) < MaxIssues
    /\ \E i \in ScoreIssues :
          /\ issues' = Append(issues, i)
          /\ scores' = calculate_scores(issues')
    /\ UNCHANGED <<checkers, last, license_vars, key_vars, daemon_vars, command_vars,
                   conns, gui>>

ScoreNext == ScoreEmpty \/ ScoreIssue

SpecScore == ScoreInit /\ [][ScoreNext]_vars

-----------------------------------------------------------------------------
(* Specification of the engine *)

Init ==
    /\ EngineInit
    /\ issues = <<>>
    /\ scores = NoScores
    /\ LicenseIdle
    /\ KeyIdle
    /\ DaemonIdle
    /\ CommandIdle
    /\ conns = "none"
    /\ gui = "none"

Next == Register \/ Scan \/ FixIssue \/ DropResult

Spec == Init /\ [][Next]_vars

-----------------------------------------------------------------------------
(* Specification of the license manager *)

InitLicense ==
    /\ LicenseInit
    /\ EngineInit
    /\ issues = <<>>
    /\ scores = NoScores
    /\ KeyIdle
    /\ DaemonIdle
    /\ CommandIdle
    /\ conns = "none"
    /\ gui = "none"

NextLicense == StartTrial \/ ActivatePro \/ DowngradeToFree \/ CheckLicense

SpecLicense == InitLicense /\ [][NextLicense]_vars

-----------------------------------------------------------------------------
(* Specification of key validation alone *)

InitKey ==
    /\ KeyIdle
    /\ LicenseIdle
    /\ EngineInit
    /\ issues = <<>>
    /\ scores = NoScores
    /\ DaemonIdle
    /\ CommandIdle
    /\ conns = "none"
    /\ gui = "none"

NextKey == ValidateKey

SpecKey == InitKey /\ [][NextKey]_vars

-----------------------------------------------------------------------------
(* Specification of the automation daemon *)

\* the license file is one of InitialFiles as the manager leaves it (a Trial
\* has an expiry, another License has none), or missing, or unreadable
InitDaemon ==
    /\ DaemonInit
    /\ license_file \in {f \in InitialFiles :
                            LET loaded == load(f, StartTime)
                            IN  loaded.ok => (loaded.result.expires_at.some
                                                <=> loaded.result.tier = "Trial")}
    /\ now = StartTime
    /\ license_calls = <<>>
    /\ EngineInit
    /\ issues = <<>>
    /\ scores = NoScores
    /\ KeyIdle
    /\ CommandIdle
    /\ conns = "none"
    /\ gui = "none"

NextDaemon == RunIteration \/ Sleep

SpecDaemon == InitDaemon /\ [][NextDaemon]_vars

-----------------------------------------------------------------------------
(* Specification of the fix actions that run external processes *)

InitCommand ==
    /\ CommandIdle
    /\ conns = "none"
    /\ gui = "none"
    /\ DaemonIdle
    /\ LicenseIdle
    /\ KeyIdle
    /\ EngineInit
    /\ issues = <<>>
    /\ scores = NoScores

NextCommand == StartFix \/ Tick \/ ChildExits \/ Timeout

SpecCommand == InitCommand /\ [][NextCommand]_vars

-----------------------------------------------------------------------------
(* Specification of the persisted store with two writers.  Each caller has  *)
(* a Connection of its own (Db::open); the database file is what they share *)

\* the scans a caller can hand to save_scan: at most this many scan ids
MaxScans == 2

\* mutant: the schedule is stored without being looked at
set_automation_settings_Unvalidated(store, settings) ==
    [store |-> [store EXCEPT !.settings = Some(settings)], ret |-> "ok"]

\* Db::set_automation_settings on the store: the store after the call and
\* what the call returns
set_automation_settings(store, settings) ==
    LET to_lowercase(str) ==
            CASE str = "Daily" -> "daily"
              [] str = "WEEKLY" -> "weekly"
              [] str = "Monthly" -> "monthly"
              [] str = "Hourly" -> "hourly"
              [] OTHER -> str
        run_schedule == to_lowercase(settings.run_schedule)
    IN  IF run_schedule \in {"daily", "weekly", "monthly"}
        THEN [store |-> [store EXCEPT !.settings =
                            Some(AutomationSettings(settings.automation_enabled,
                                                    run_schedule,
                                                    settings.auto_fix_enabled))],
              ret |-> "ok"]
        ELSE [store |-> store, ret |-> "invalid run schedule"]

\* mutant: the statement runs whoever holds the write lock
execute_Unlocked(cs, caller, call) ==
    [cs EXCEPT !.lock = caller, !.call[caller] = call]

\* Connection::execute of a writing statement by the caller. The statement
\* needs the write lock of the database file: when another connection holds
\* it the statement fails with SQLITE_BUSY, which the caller returns as Err
execute(cs, caller, call) ==
    IF cs.lock = "none"
    THEN [cs EXCEPT !.lock = caller, !.call[caller] = call]
    ELSE [cs EXCEPT !.call[caller] = [call EXCEPT !.ret = "busy"]]

\* a caller starts Db::save_scan of a ScanResult. A caller runs one call at a
\* time; conns.call is its call in progress (ret "") or the last it made,
\* with what it returned
SaveScan ==
    /\ \E caller \in DOMAIN conns.call :
          /\ conns.lock # caller
          /\ \E scan_id \in 1..MaxScans, timestamp \in {StartTime, StartTime + 86400} :
                conns' = execute(conns, caller,
                                 [op |-> "save_scan", ret |-> "", timestamp |-> timestamp,
                                  result |-> [scan_id |-> scan_id, issues |-> <<>>,
                                              scores |-> calculate_scores(<<>>)]])
    /\ UNCHANGED <<issues, scores, checkers, last, license_vars, key_vars, daemon_vars,
                   command_vars, gui>>

\* a caller calls Db::set_automation_settings: a schedule that is not valid
\* returns before any statement runs
SetAutomationSettings ==
    /\ \E caller \in DOMAIN conns.call :
          /\ conns.lock # caller
          /\ \E settings \in [automation_enabled : BOOLEAN,
                              run_schedule : {"daily", "monthly", "WEEKLY", "Hourly"},
                              auto_fix_enabled : {FALSE}] :
                conns' =
                   IF set_automation_settings(db, settings).ret = "ok"
                   THEN execute(conns, caller,
                                [op |-> "set_automation_settings", ret |-> "",
                                 settings |-> settings])
                   ELSE [conns EXCEPT !.call[caller] =
                            [op |-> "set_automation_settings",
                             ret |-> set_automation_settings(db, settings).ret,
                             settings |-> settings]]
    /\ UNCHANGED <<issues, scores, checkers, last, license_vars, key_vars, daemon_vars,
                   command_vars, gui>>

\* the statement of the connection that holds the write lock completes: the
\* row is written, the lock is released and the call returns Ok
Commit ==
    /\ conns.lock # "none"
    /\ LET call == conns.call[conns.lock]
       IN  db' = IF call.op = "save_scan"
                 THEN save_scan(db, call.timestamp, call.result)
                 ELSE set_automation_settings(db, call.settings).store
    /\ conns' = [conns EXCEPT !.lock = "none", !.call[conns.lock].ret = "ok"]
    /\ UNCHANGED <<issues, scores, checkers, last, license_vars, key_vars, daemon,
                   command_vars, gui>>

\* the store of a new database file, and two connections to it with no call
\* made yet
InitStore ==
    /\ conns = [lock |-> "none",
                call |-> [caller \in {"scheduler", "foreground"} |->
                             [op |-> "none", ret |-> ""]]]
    /\ DaemonIdle
    /\ gui = "none"
    /\ CommandIdle
    /\ LicenseIdle
    /\ KeyIdle
    /\ EngineInit
    /\ issues = <<>>
    /\ scores = NoScores

NextStore == SaveScan \/ SetAutomationSettings \/ Commit

SpecStore == InitStore /\ [][NextStore]_vars

-----------------------------------------------------------------------------
(* Specification of the GUI process: the commands of the bridge run as      *)
(* concurrent tasks on one AppState, here two tasks at a time               *)

\* mutant: the stored result is returned whatever id is asked for
get_scan_result_Current(current_scan, scan_id) ==
    IF current_scan.some THEN [ok |-> TRUE, result |-> current_scan.value]
    ELSE [ok |-> FALSE, err |-> "No scan results available"]

\* get_scan_result, once it holds the lock of current_scan
get_scan_result(current_scan, scan_id) ==
    IF current_scan.some /\ current_scan.value.scan_id = scan_id
    THEN [ok |-> TRUE, result |-> current_scan.value]
    ELSE IF current_scan.some THEN [ok |-> FALSE, err |-> "Scan ID mismatch"]
    ELSE [ok |-> FALSE, err |-> "No scan results available"]

\* scan_start up to the scan: state.scanner_engine.lock().await gives the
\* task the engine when no task holds it, and the task is then inside
\* engine.scan; otherwise the task waits at the lock
scan_start ==
    /\ Cardinality(gui.issued) < MaxScans
    /\ \E t \in DOMAIN gui.task :
          /\ \/ gui.task[t].pc = "done"
             \/ gui.task[t].pc = "waiting" /\ gui.task[t].cmd = "scan_start"
                   /\ gui.engine = 0
          /\ \E options \in {DefaultScanOptions,
                             [DefaultScanOptions EXCEPT !.performance = FALSE]} :
                gui' = IF gui.engine = 0
                       THEN [gui EXCEPT !.engine = t,
                                        !.task[t] = [cmd |-> "scan_start", pc |-> "engine",
                                                     arg |-> options]]
                       ELSE [gui EXCEPT !.task[t] = [cmd |-> "scan_start",
                                                     pc |-> "waiting"]]
    /\ UNCHANGED <<issues, scores, checkers, last, license_vars, key_vars, daemon_vars,
                   command_vars, conns>>

\* fix_action up to the fix: the same lock, and the task is then inside
\* engine.fix_issue
fix_action ==
    /\ \E t \in DOMAIN gui.task :
          /\ \/ gui.task[t].pc = "done"
             \/ gui.task[t].pc = "waiting" /\ gui.task[t].cmd = "fix_action"
                   /\ gui.engine = 0
          /\ \E action_id \in {"enable_firewall", "nonexistent_action"} :
                gui' = IF gui.engine = 0
                       THEN [gui EXCEPT !.engine = t,
                                        !.task[t] = [cmd |-> "fix_action", pc |-> "engine",
                                                     arg |-> action_id]]
                       ELSE [gui EXCEPT !.task[t] = [cmd |-> "fix_action",
                                                     pc |-> "waiting"]]
    /\ UNCHANGED <<issues, scores, checkers, last, license_vars, key_vars, daemon_vars,
                   command_vars, conns>>

\* the task inside the engine comes to the end of its command. scan_start:
\* the scan returns, the result goes into current_scan under its lock and
\* the command returns the scan_id; or a checker panics, which unwinds out
\* of the command. fix_action: the command returns the FixResult. The guards
\* are dropped as the command ends (a tokio Mutex is not poisoned by a panic)
Return ==
    /\ gui.engine # 0
    /\ LET t    == gui.engine
           task == gui.task[t]
       IN  IF task.cmd = "scan_start"
           THEN \E out \in RunBehaviours(checkers, task.arg, Len(checkers)) :
                   LET call == scan(checkers, task.arg, out, new_v4(gui.issued))
                   IN  gui' =
                          IF call.returned
                          THEN [gui EXCEPT
                                   !.engine = 0,
                                   !.current_scan = Some(call.result),
                                   !.issued = @ \cup {call.result.scan_id},
                                   !.latest = Some(call.result.scan_id),
                                   !.task[t] = [cmd |-> "scan_start", pc |-> "done",
                                                ret |-> [ok |-> TRUE,
                                                         result |-> call.result.scan_id]]]
                          ELSE [gui EXCEPT
                                   !.engine = 0,
                                   !.task[t] = [cmd |-> "scan_start", pc |-> "done",
                                                ret |-> [ok |-> FALSE, err |-> "panic"]]]
           ELSE \E replies \in FixBehaviours(checkers, task.arg, Len(checkers)) :
                   gui' = [gui EXCEPT
                              !.engine = 0,
                              !.task[t] = [cmd |-> "fix_action", pc |-> "done",
                                           ret |-> [ok |-> TRUE,
                                                    result |-> fix_issue(checkers, task.arg,
                                                                         replies).fix_result]]]
    /\ UNCHANGED <<issues, scores, checkers, last, license_vars, key_vars, daemon_vars,
                   command_vars, conns>>

\* get_scan_result: the lock of current_scan is free whenever a task is at
\* this point (scan_start takes it and drops it within Return), so the
\* command runs through
GetScanResult ==
    /\ \E t \in DOMAIN gui.task :
          /\ gui.task[t].pc = "done"
          /\ \E scan_id \in 1..(MaxScans + 1) :
                gui' = [gui EXCEPT
                           !.task[t] = [cmd |-> "get_scan_result", pc |-> "done",
                                        arg |-> scan_id,
                                        ret |-> get_scan_result(gui.current_scan, scan_id)]]
    /\ UNCHANGED <<issues, scores, checkers, last, license_vars, key_vars, daemon_vars,
                   command_vars, conns>>

\* AppState::new, with two of the registered checkers; no task runs a
\* command. issued: the scan ids handed out so far; latest: the scan_id the
\* scan_start that returned last has returned
InitGui ==
    /\ gui = [engine |-> 0, current_scan |-> None, issued |-> {}, latest |-> None,
              task |-> [t \in 1..2 |-> [cmd |-> "none", pc |-> "done"]]]
    /\ checkers = <<"firewall_checker", "Storage & Drive Health">>
    /\ last = NoCall
    /\ issues = <<>>
    /\ scores = NoScores
    /\ conns = "none"
    /\ DaemonIdle
    /\ CommandIdle
    /\ LicenseIdle
    /\ KeyIdle

NextGui == scan_start \/ fix_action \/ Return \/ GetScanResult

SpecGui == InitGui /\ [][NextGui]_vars

-----------------------------------------------------------------------------
(* Properties of ScannerEngine::fix_issue *)

NoHandlerFound(action_id) ==
    FixResult(FALSE, Message("No handler found for action", action_id))

\* C1: when the checker that owns the action recognises it and its
\* remediation fails, fix_issue returns that failure with the checker's
\* reason and probes no later checker.
C1_OwnerFailureSurfaced ==
    last.op = "fix" =>
        \A n \in 1..Len(last.replies) :
            (Owns(checkers[n], last.action_id) /\ ~last.replies[n].ok) =>
                /\ last.fix_result = FixResult(FALSE, last.replies[n].err)
                /\ Len(last.replies) = n

\* C2: fix_issue returns, and when no registered checker handles the action
\* the result is a failure saying no handler was found for that action.
C2_NoHandlerFound ==
    last.op = "fix" =>
        /\ last.returned
        /\ (\A n \in 1..Len(last.replies) : ~Owns(checkers[n], last.action_id))
              => last.fix_result = NoHandlerFound(last.action_id)

\* C2 witness: two checkers were probed for an action neither handles
C2_Witness ==
    /\ last.op = "fix"
    /\ last.action_id = "nonexistent_action"
    /\ Len(last.replies) = 2
    /\ last.fix_result = NoHandlerFound("nonexistent_action")

-----------------------------------------------------------------------------
(* Properties of ScannerEngine::scan *)

\* the issues of the first n checkers of a scan call, in registration order,
\* leaving out the checkers that were not invoked
RECURSIVE Contributions(_, _)
Contributions(call, n) ==
    IF n = 0 THEN <<>>
    ELSE Contributions(call, n - 1)
            \o (IF call.invoked[n] THEN call.out[n].issues ELSE <<>>)

IssueIds(list) == {list[k].id : k \in 1..Len(list)}

\* C3: a checker that panics in run contributes nothing, every other included
\* checker is still invoked, and scan returns a ScanResult with their issues.
C3_PanicIsolated ==
    last.op = "scan" =>
        /\ last.returned
        /\ \A n \in 1..Len(last.out) :
              should_run(category(checkers[n]), last.options) =>
                  /\ last.invoked[n]
                  /\ ~last.out[n].panic =>
                        IssueIds(last.out[n].issues) \subseteq IssueIds(last.result.issues)

\* C4: a Security checker is invoked iff options.security, a Performance
\* checker iff options.performance, any other checker always; with
\* options.performance false the result holds no issue of a Performance checker.
C4_CategoryGating ==
    last.op = "scan" =>
        /\ \A n \in 1..Len(last.out) :
              LET cat == category(checkers[n])
              IN  last.invoked[n] <=>
                     CASE cat = "Security" -> last.options.security
                       [] cat = "Performance" -> last.options.performance
                       [] OTHER -> TRUE
        /\ ~last.options.performance =>
              \A n \in 1..Len(last.out) :
                  category(checkers[n]) = "Performance" =>
                      IssueIds(last.result.issues) \cap IssueIdsOf(checkers[n]) = {}

\* the issues of one severity, in their order in the list
OfSeverity(list, sev) ==
    LET Is(i) == i.severity = sev IN SelectSeq(list, Is)

SeverityRank(sev) ==
    CASE sev = "Critical" -> 0 [] sev = "Warning" -> 1 [] sev = "Info" -> 2

\* C5: the issues of a ScanResult are in non-decreasing severity rank, and
\* issues of equal severity are in the order of the checkers' outputs
\* concatenated in registration order.
C5_StableSeverityOrder ==
    (last.op = "scan" /\ last.returned) =>
        LET got == last.result.issues
            all == Contributions(last, Len(last.out))
        IN  /\ Len(got) = Len(all)
            /\ \A i \in 1..Len(got) : \A j \in i..Len(got) :
                  SeverityRank(got[i].severity) <= SeverityRank(got[j].severity)
            /\ \A sev \in IssueSeverity : OfSeverity(got, sev) = OfSeverity(all, sev)

\* C5 witness: the sort moved a Critical issue in front of two Warning issues
\* that come from different checkers and kept their order
C5_Witness ==
    /\ last.op = "scan"
    /\ last.returned
    /\ Contributions(last, Len(last.out))
          = <<PortOpen445, PortOpen3389, ExcessiveStartupItems, BloatwareStartup>>
    /\ last.result.issues
          = <<PortOpen3389, PortOpen445, ExcessiveStartupItems, BloatwareStartup>>

-----------------------------------------------------------------------------
(* Properties of ScoringEngine::calculate_scores *)

\* C6: health and speed are within [0,100] for every issue list.
C6_ScoresInRange ==
    scores # NoScores =>
        /\ scores.health \in 0..100
        /\ scores.speed \in 0..100

\* C6 witness: health_score went below zero and was clamped
C6_Witness ==
    /\ scores # NoScores
    /\ HealthAcc(issues, Len(issues)) < 0
    /\ scores = SystemScores(0, 100)

\* the documented penalty of an issue on a score, before the weight
TablePenalty(score, issue) ==
    CASE score = "health" /\ issue.impact_category = "Security" ->
            (CASE issue.severity = "Critical" -> 20
               [] issue.severity = "Warning" -> 10
               [] issue.severity = "Info" -> 2)
      [] score = "speed" /\ issue.impact_category = "Performance" ->
            (CASE issue.severity = "Critical" -> 25
               [] issue.severity = "Warning" -> 12
               [] issue.severity = "Info" -> 3)
      [] OTHER -> 0

\* the documented weight of an issue id, in tenths
TableWeight(id) ==
    CASE id \in {"firewall_disabled", "rdp_port_open"} -> 20
      [] id = "windows_update_pending" -> 15
      [] id = "excessive_startup_items" -> 8
      [] OTHER -> 10

\* tenths, as a number of 2^-23 to within 2^-19
FromTenths(t) == ((t * (One \div 16)) \div 10) * 16

\* two f32 values differ by no more than the rounding of two operations
Near(x, y) == x - y <= 256 /\ y - x <= 256

\* 100 minus the weighted penalties of the first n issues, in exact tenths
RECURSIVE ExactTenths(_, _, _)
ExactTenths(score, list, n) ==
    IF n = 0 THEN 1000
    ELSE ExactTenths(score, list, n - 1)
            - TablePenalty(score, list[n]) * TableWeight(list[n].id)

Floor0(tenths) == IF tenths < 0 THEN 0 ELSE tenths \div 10

\* what the last iteration of the loop took off health_score and speed_score
LastHealthDrop == HealthAcc(issues, Len(issues) - 1) - HealthAcc(issues, Len(issues))

LastSpeedDrop == SpeedAcc(issues, Len(issues) - 1) - SpeedAcc(issues, Len(issues))

\* C7: a Security issue lowers only health, by 20/10/2 times its weight, and
\* a Performance issue lowers only speed, by 25/12/3 times its weight: in
\* the loop iteration that handles it (to within f32 rounding; every prefix
\* of a list is a list of its own, so the last iteration stands for all),
\* and in the scores of every list of such issues whose weights are whole
\* numbers.
C7_PenaltyTable ==
    (scores # NoScores /\ issues # <<>>) =>
        LET i == issues[Len(issues)]
        IN  /\ i.impact_category = "Security" =>
                  /\ Near(LastHealthDrop,
                          FromTenths(TablePenalty("health", i) * TableWeight(i.id)))
                  /\ LastSpeedDrop = 0
            /\ i.impact_category = "Performance" =>
                  /\ Near(LastSpeedDrop,
                          FromTenths(TablePenalty("speed", i) * TableWeight(i.id)))
                  /\ LastHealthDrop = 0
            /\ (\A n \in 1..Len(issues) :
                   /\ issues[n].impact_category \in {"Security", "Performance"}
                   /\ TableWeight(issues[n].id) % 10 = 0)
                  => /\ scores.health = Floor0(ExactTenths("health", issues, Len(issues)))
                     /\ scores.speed = Floor0(ExactTenths("speed", issues, Len(issues)))

\* C7 witness: one Critical/Security and one Warning/Performance issue of
\* weight 1.0 give health 80 and speed 88
C7_Witness ==
    /\ issues = <<Issue("test_info", "Critical", "Security", NoFix),
                  Issue("test_info", "Warning", "Performance", NoFix)>>
    /\ scores = SystemScores(80, 88)
    /\ scores.health < scores.speed

\* C8: the empty issue list scores health 100 and speed 100.
C8_EmptyListPerfect ==
    (scores # NoScores /\ issues = <<>>) => scores = SystemScores(100, 100)

\* C8 witness: the empty list has been scored
C8_Witness ==
    /\ issues = <<>>
    /\ scores = SystemScores(100, 100)

\* the list with the severity of every Both-impact issue set to sev
WithBothSeverity(list, sev) ==
    [k \in 1..Len(list) |->
        IF list[k].impact_category = "Both"
        THEN [list[k] EXCEPT !.severity = sev]
        ELSE list[k]]

HasImpact(list, impact) ==
    \E k \in 1..Len(list) : list[k].impact_category = impact

\* C9: a Both-impact issue lowers health and speed by the same 15 times its
\* weight whatever its severity: the scores do not change when its severity
\* does, the loop iteration that handles it takes 15 times the weight off
\* both accumulators (to within f32 rounding), and a single such issue
\* scores health = speed = 100 - 15 * weight.
C9_BothFlat ==
    (scores # NoScores /\ HasImpact(issues, "Both")) =>
        /\ \A sev \in IssueSeverity :
              scores = calculate_scores(WithBothSeverity(issues, sev))
        /\ issues[Len(issues)].impact_category = "Both" =>
              LET w == TableWeight(issues[Len(issues)].id)
              IN  /\ Near(LastHealthDrop, FromTenths(15 * w))
                  /\ Near(LastSpeedDrop, FromTenths(15 * w))
                  /\ Len(issues) = 1 =>
                        /\ scores.health = (1000 - 15 * w) \div 10
                        /\ scores.speed = scores.health

\* C9 witness: a Critical and an Info issue of impact Both were scored
C9_Witness ==
    /\ scores = SystemScores(70, 70)
    /\ Len(issues) = 2
    /\ issues[1] = Issue("test_info", "Critical", "Both", NoFix)
    /\ issues[2] = Issue("test_info", "Info", "Both", NoFix)

\* the list without its Privacy-impact issues
WithoutPrivacy(list) ==
    LET Counts(i) == i.impact_category # "Privacy" IN SelectSeq(list, Counts)

\* C10: Privacy-impact issues change neither score: a list scores as it does
\* with its Privacy-impact issues removed.
C10_PrivacyNoEffect ==
    (scores # NoScores /\ HasImpact(issues, "Privacy")) =>
        scores = calculate_scores(WithoutPrivacy(issues))

\* C10 witness: a Critical Privacy issue was scored between two issues that count
C10_Witness ==
    /\ scores # NoScores
    /\ Len(issues) = 3
    /\ issues[1].impact_category = "Security"
    /\ issues[2].impact_category = "Privacy"
    /\ issues[2].severity = "Critical"
    /\ issues[2].id = "firewall_disabled"
    /\ issues[3].impact_category = "Both"
    /\ scores.health < 100

\* the documented penalty of an issue on a score, Both included
WholePenalty(score, issue) ==
    IF issue.impact_category = "Both" THEN 15 ELSE TablePenalty(score, issue)

\* 100 minus penalty times weight over the first n issues, in exact tenths
RECURSIVE WeightedTenths(_, _, _)
WeightedTenths(score, list, n) ==
    IF n = 0 THEN 1000
    ELSE WeightedTenths(score, list, n - 1)
            - WholePenalty(score, list[n]) * TableWeight(list[n].id)

\* a score is the clamped value cut down to a whole number: never above the
\* value, and less than one below it (the f32 accumulator may sit a rounding
\* error under a whole number)
Truncated(score, tenths) ==
    LET v == IF tenths < 0 THEN 0 ELSE tenths
    IN  /\ 10 * score <= v
        /\ score >= Floor0(v) - 1
        /\ score >= 0

\* C11: every penalty is multiplied by the weight of the issue id (1.0 for
\* an id the table lacks) and the clamped score is truncated, not rounded: a
\* score never exceeds 100 minus the weighted penalties, and for one issue it
\* is exactly the whole part (weight 0.8 on an Info/Performance issue gives
\* speed 97, weight 2.0 on a Critical/Security issue gives health 60).
C11_WeightedTruncated ==
    scores # NoScores =>
        /\ Truncated(scores.health, WeightedTenths("health", issues, Len(issues)))
        /\ Truncated(scores.speed, WeightedTenths("speed", issues, Len(issues)))
        /\ Len(issues) = 1 =>
              /\ scores.health = Floor0(WeightedTenths("health", issues, 1))
              /\ scores.speed = Floor0(WeightedTenths("speed", issues, 1))
        /\ issues = <<Issue("firewall_disabled", "Critical", "Security", NoFix)>>
              => scores = SystemScores(60, 100)

\* C11 witness: one Info/Performance issue of weight 0.8 leaves 97.6, and the
\* speed returned is 97
C11_Witness ==
    /\ issues = <<Issue("excessive_startup_items", "Info", "Performance", NoFix)>>
    /\ WeightedTenths("speed", issues, 1) = 976
    /\ scores = SystemScores(100, 97)

-----------------------------------------------------------------------------
(* Properties of License and LicenseManager *)

\* the latest call made on the manager
LastCall == license_calls[Len(license_calls)]

\* whether the file holds a License, and the License it holds
Parses(file) == load(file, StartTime).ok

Stored(file) == load(file, StartTime).result

\* a call found a license it could read: a stored one, or no file at all
FoundLicense(c) == c.before.exists => Parses(c.before)

\* the license a call found: the stored one, or the default Free license
Found(c) == IF c.before.exists THEN Stored(c.before) ELSE DefaultLicense(c.at)

\* the expiry of a license lies before time t
PastExpiry(license, t) == license.expires_at.some /\ license.expires_at.value < t

\* C12: effective_tier is Free for a stored Trial whose expires_at is past,
\* Trial for a stored Trial whose expiry is in the future or absent, and the
\* stored tier for Free and Pro whatever expires_at holds.
C12_EffectiveTier ==
    (license_calls # <<>> /\ LastCall.op = "check_license" /\ FoundLicense(LastCall)) =>
        LET l == Found(LastCall)
            tier == LastCall.result.result.tier
        IN  /\ LastCall.result.ok
            /\ (l.tier = "Trial" /\ PastExpiry(l, LastCall.at)) => tier = "Free"
            /\ (l.tier = "Trial" /\ ~PastExpiry(l, LastCall.at)) => tier = "Trial"
            /\ l.tier \in {"Free", "Pro"} => tier = l.tier

\* C12 witness: a Trial is read one second after its expiry and counts as Free
C12_Witness ==
    /\ license_calls # <<>>
    /\ LastCall.op = "check_license"
    /\ LastCall.before.exists /\ Parses(LastCall.before)
    /\ Stored(LastCall.before).tier = "Trial"
    /\ Stored(LastCall.before).expires_at = Some(LastCall.at - 1)
    /\ LastCall.result.result.tier = "Free"

\* C13: has_pro_feature(Automation) is true exactly when the effective tier
\* is Pro or Trial: false for Free and for a Trial past its expiry, true for
\* Pro and for a Trial not past its expiry.
C13_AutomationGate ==
    (license_calls # <<>> /\ LastCall.op = "check_license" /\ FoundLicense(LastCall)) =>
        LET l == Found(LastCall)
            r == LastCall.result.result
        IN  /\ r.automation <=> r.tier \in {"Pro", "Trial"}
            /\ l.tier = "Free" => ~r.automation
            /\ (l.tier = "Trial" /\ PastExpiry(l, LastCall.at)) => ~r.automation
            /\ l.tier = "Pro" => r.automation
            /\ (l.tier = "Trial" /\ ~PastExpiry(l, LastCall.at)) => r.automation

\* C13 witness: a Trial issued by start_trial is refused Automation once its
\* fourteen days are over
C13_Witness ==
    /\ Len(license_calls) >= 2
    /\ LastCall.op = "check_license"
    /\ license_calls[1].op = "start_trial"
    /\ license_calls[1].after # license_calls[1].before
    /\ LastCall.before = license_calls[1].after
    /\ LastCall.at > license_calls[1].at + TrialDuration
    /\ LastCall.result.result.automation = FALSE

\* the call before the latest one
PrevCall == license_calls[Len(license_calls) - 1]

\* C14: two start_trial calls in a row, the first returning a Trial that has
\* not expired at the second, return the same activated_at and expires_at,
\* and the second leaves the license file as it was.
C14_StartTrialIdempotent ==
    (/\ Len(license_calls) >= 2
     /\ PrevCall.op = "start_trial" /\ LastCall.op = "start_trial"
     /\ PrevCall.result.ok
     /\ ~PastExpiry(PrevCall.result.result, LastCall.at)) =>
        /\ LastCall.result.ok
        /\ LastCall.result.result.activated_at = PrevCall.result.result.activated_at
        /\ LastCall.result.result.expires_at = PrevCall.result.result.expires_at
        /\ LastCall.after = LastCall.before

\* C14 witness: a fresh Trial is issued, and a second start_trial in its last
\* second returns it again
C14_Witness ==
    /\ Len(license_calls) >= 2
    /\ PrevCall.op = "start_trial" /\ LastCall.op = "start_trial"
    /\ PrevCall.after # PrevCall.before
    /\ LastCall.at = PrevCall.at + TrialDuration
    /\ LastCall.result = PrevCall.result
    /\ LastCall.result.ok

\* C15: start_trial with a Pro license stored returns an error and leaves the
\* license file as it was.
C15_StartTrialRefusedOnPro ==
    (/\ license_calls # <<>>
     /\ LastCall.op = "start_trial"
     /\ LastCall.before.exists /\ Parses(LastCall.before)
     /\ Stored(LastCall.before).tier = "Pro") =>
        /\ ~LastCall.result.ok
        /\ LastCall.after = LastCall.before

\* C15 witness: start_trial is refused on the Pro license that activate_pro
\* has just stored
C15_Witness ==
    /\ Len(license_calls) >= 2
    /\ PrevCall.op = "activate_pro" /\ PrevCall.result.ok
    /\ LastCall.op = "start_trial"
    /\ ~LastCall.result.ok
    /\ license_file = save(License(Some(to_uppercase(GoodKey)), "Pro", PrevCall.at, None))

\* a fresh Trial was issued at the call, persisted and returned
IssuedFreshTrial(c) ==
    LET fresh == License(None, "Trial", c.at, Some(c.at + 14 * 86400))
    IN  /\ c.result.ok
        /\ c.result.result = fresh
        /\ c.after.exists /\ Parses(c.after) /\ Stored(c.after) = fresh

IssuedTrial(n) ==
    /\ license_calls[n].op = "start_trial"
    /\ license_calls[n].result.ok
    /\ license_calls[n].after # license_calls[n].before

\* C17: once start_trial has issued a Trial, no later call leaves a Trial in
\* the license file that expires later than that Trial.
C17_NoTrialRenewal ==
    \A i \in 1..Len(license_calls) : \A j \in (i + 1)..Len(license_calls) :
        (/\ IssuedTrial(i)
         /\ license_calls[j].after.exists /\ Parses(license_calls[j].after)
         /\ Stored(license_calls[j].after).tier = "Trial"
         /\ Stored(license_calls[j].after).expires_at.some) =>
            Stored(license_calls[j].after).expires_at.value
                <= license_calls[i].result.result.expires_at.value

-----------------------------------------------------------------------------
(* Properties of LicenseManager::validate_key *)

\* the letters and digits of ASCII
AsciiAlnum == {Digits36[k] : k \in 1..36} \cup {LowerCase[k] : k \in 1..26}

\* a letter or digit read as a digit of base 36, either case
Base36Value(c) ==
    CHOOSE v \in 0..35 : Digits36[v + 1] = c \/ (v >= 10 /\ LowerCase[v - 9] = c)

\* a segment of exactly four letters or digits
Alnum4(seg) == Len(seg) = 4 /\ \A k \in 1..4 : seg[k] \in AsciiAlnum

\* the sum of the base-36 values of the twelve payload characters
PayloadSum(parts) ==
    LET V(n, k) == Base36Value(parts[n][k])
        S(n) == V(n, 1) + V(n, 2) + V(n, 3) + V(n, 4)
    IN  S(2) + S(3) + S(4)

C21_DocumentedFormatAccepted ==
    key_parts # <<>> =>
        /\ (/\ Len(key_parts) = 5
             /\ key_parts[1] = <<"H", "S", "P", "C">>
             /\ \A n \in 2..5 : Alnum4(key_parts[n])) => key_valid
        /\ (\/ Len(key_parts) # 5
             \/ key_parts[1] # <<"H", "S", "P", "C">>
             \/ \E n \in 2..Len(key_parts) : Len(key_parts[n]) # 4) => ~key_valid

-----------------------------------------------------------------------------
(* Properties of the license file over sequences of calls *)

\* the manager was created with no license file at license_path
StartedWithNoFile ==
    IF license_calls = <<>> THEN license_file = NoFile
    ELSE license_calls[1].before = NoFile

\* C22: starting from no license file, after any calls of activate_pro,
\* start_trial and downgrade_to_free the persisted license has, when its
\* tier is Trial, an expires_at of activated_at + 14 x 86400 (so later than
\* activated_at), and when its tier is Pro or Free, no expires_at.
C22_ExpiryOnlyOnTrial ==
    (StartedWithNoFile /\ license_file.exists) =>
        /\ Parses(license_file)
        /\ Stored(license_file).tier = "Trial" =>
              /\ Stored(license_file).expires_at.some
              /\ Stored(license_file).expires_at.value
                    = Stored(license_file).activated_at + 14 * 86400
              /\ Stored(license_file).expires_at.value > Stored(license_file).activated_at
        /\ Stored(license_file).tier \in {"Pro", "Free"} =>
              Stored(license_file).expires_at = None

\* C22 witness: from no file, a Pro license is activated, downgraded, and a
\* Trial started
C22_Witness ==
    /\ StartedWithNoFile
    /\ Len(license_calls) = 3
    /\ license_calls[1].op = "activate_pro" /\ license_calls[1].result.ok
    /\ license_calls[2].op = "downgrade_to_free"
    /\ license_calls[3].op = "start_trial"
    /\ license_file.exists
    /\ Stored(license_file).tier = "Trial"
    /\ Stored(license_file).expires_at = Some(now + 14 * 86400)

-----------------------------------------------------------------------------
(* Properties of the automation scheduler *)

\* the step that is one call of run_automation_iteration
IterationStep == daemon'.iterations = daemon.iterations + 1

\* the iteration made no call beyond those that read the settings
NothingFurther(trace) ==
    /\ ~trace.license_loaded
    /\ ~trace.due_checked
    /\ trace.scan = NoCall
    /\ trace.fixes = <<>>
    /\ ~trace.save_called

\* C23: an iteration that reads AutomationSettings with automation disabled
\* loads no license, runs no scan, invokes no fix, leaves the store as it
\* was, and returns Ok.
C23_DisabledDoesNothing ==
    [][(/\ IterationStep
        /\ daemon'.last.settings_read
        /\ ~daemon'.last.settings.automation_enabled)
       => (/\ NothingFurther(daemon'.last)
           /\ db' = db
           /\ daemon'.last.ret = "Ok")]_vars

\* an iteration found automation disabled in a store that holds a row of
\* settings and a scan, and returned
C23_Witness ==
    /\ daemon.iterations >= 1
    /\ daemon.last.settings_read
    /\ ~daemon.last.settings.automation_enabled
    /\ db.settings.some
    /\ db.scans # <<>>
    /\ daemon.last.ret = "Ok"

\* the license lacks the Automation capability at time t: it is Free, or a
\* Trial whose expiry has passed
LacksAutomation(license, t) ==
    \/ license.tier = "Free"
    \/ /\ license.tier = "Trial"
       /\ license.expires_at.some
       /\ t > license.expires_at.value

\* C24: an iteration that loads a license lacking the Automation capability
\* runs no scan and no fix and saves nothing: it returns Ok and leaves the
\* settings and the stored scans as they were.
C24_UnlicensedSkips ==
    [][(/\ IterationStep
        /\ daemon'.last.license_loaded
        /\ daemon'.last.license.ok
        /\ LacksAutomation(daemon'.last.license.result, daemon'.last.at))
       => (/\ daemon'.last.scan = NoCall
           /\ daemon'.last.fixes = <<>>
           /\ ~daemon'.last.save_called
           /\ db' = db
           /\ daemon'.last.ret = "Ok")]_vars

\* the second iteration found the Trial of the first expired, with automation
\* enabled and a scan due, and ran no scan
C24_Witness ==
    /\ daemon.iterations = 2
    /\ daemon.last.license_loaded
    /\ daemon.last.license.ok
    /\ daemon.last.license.result.tier = "Trial"
    /\ daemon.last.license.result.expires_at = Some(daemon.last.at - SLEEP_INTERVAL)
    /\ daemon.last.settings.automation_enabled
    /\ should_run_scan(daemon.last.settings, last_scan_timestamp(db), daemon.last.at)
    /\ daemon.last.scan = NoCall
    /\ daemon.last.ret = "Ok"

\* the interval of a schedule, in seconds
Interval(schedule) ==
    CASE schedule = "daily" -> 86400
      [] schedule = "weekly" -> 7 * 86400
      [] schedule = "monthly" -> 30 * 86400

\* a scan is due at time t under the schedule: the store holds no scan, or
\* its latest scan is at least an interval old
Due(store, schedule, t) ==
    \/ store.scans = <<>>
    \/ \E k \in DOMAIN store.scans :
          /\ \A j \in DOMAIN store.scans :
                store.scans[j].timestamp <= store.scans[k].timestamp
          /\ t >= store.scans[k].timestamp + Interval(schedule)

\* the iteration found automation enabled and the Automation capability
\* present, and the store answered the due check
ReachedSchedule(trace) ==
    /\ trace.settings_read
    /\ trace.settings.automation_enabled
    /\ trace.license_loaded
    /\ trace.license.ok
    /\ ~LacksAutomation(trace.license.result, trace.at)
    /\ trace.err # "due"

\* C25: with automation enabled and the Automation capability present, an
\* iteration runs a scan iff the store holds no scan or the latest stored
\* scan is at least interval(schedule) old (86400 s daily, 7 x 86400 s
\* weekly, 30 x 86400 s monthly); when no scan is due it runs no scan and no
\* fix and leaves the store as it was.
C25_ScanIffDue ==
    [][(IterationStep /\ ReachedSchedule(daemon'.last))
       => LET trace == daemon'.last
              due   == Due(db, trace.settings.run_schedule, trace.at)
          IN  /\ (trace.scan.op = "scan") <=> due
              /\ ~due => (/\ trace.fixes = <<>>
                          /\ ~trace.save_called
                          /\ db' = db)]_vars

\* a monthly scan ran and was saved exactly 30 x 86400 s after the latest of
\* two stored scans, which is not the row written last
C25_Witness ==
    /\ daemon.last.settings.run_schedule = "monthly"
    /\ daemon.last.scan.op = "scan"
    /\ daemon.last.saved
    /\ Len(db.scans) = 3
    /\ db.scans[1].timestamp > db.scans[2].timestamp
    /\ daemon.last.at = db.scans[1].timestamp + 30 * 86400

\* the issue carries a FixAction that is marked auto-fixable
AutoFixable(issue) == issue.fix # NoFix /\ issue.fix.is_auto_fix

\* C26: when auto_fix_enabled, an iteration whose scan returned a ScanResult
\* calls fix_issue exactly once for each auto-fixable issue of the result,
\* in the order of the result and whatever the earlier attempts returned,
\* and then calls save_scan.
C26_AutoFixBatch ==
    (/\ daemon.last.scan.op = "scan"
     /\ daemon.last.scan.returned
     /\ daemon.last.settings.auto_fix_enabled)
    => LET wanted == SelectSeq(daemon.last.scan.result.issues, AutoFixable)
           fixes  == daemon.last.fixes
       IN  /\ Len(fixes) = Len(wanted)
           /\ \A k \in DOMAIN fixes :
                 /\ fixes[k].issue_id = wanted[k].id
                 /\ fixes[k].call.op = "fix"
                 /\ fixes[k].call.action_id = wanted[k].fix.action_id
           /\ daemon.last.save_called

\* the first of two fix attempts failed, the second was made all the same,
\* and the result was saved
C26_Witness ==
    /\ daemon.last.settings.auto_fix_enabled
    /\ Len(daemon.last.fixes) = 2
    /\ ~daemon.last.fixes[1].call.fix_result.success
    /\ daemon.last.fixes[2].call.op = "fix"
    /\ daemon.last.saved
    /\ db.scans[Len(db.scans)].result = daemon.last.scan.result

\* C27: every call of fix_issue an iteration makes is made with
\* auto_fix_enabled set, for an issue of the ScanResult that carries a
\* FixAction marked auto-fixable, and with that action's id.
C27_OnlyAutoFixable ==
    \A k \in DOMAIN daemon.last.fixes :
        /\ daemon.last.settings.auto_fix_enabled
        /\ \E n \in DOMAIN daemon.last.scan.result.issues :
              LET issue == daemon.last.scan.result.issues[n]
              IN  /\ issue.id = daemon.last.fixes[k].issue_id
                  /\ issue.fix # NoFix
                  /\ issue.fix.is_auto_fix
                  /\ issue.fix.action_id = daemon.last.fixes[k].call.action_id

\* with auto_fix_enabled, the result held an issue without FixAction, one
\* whose FixAction is not auto-fixable and two that are, and fix_issue was
\* called twice
C27_Witness ==
    /\ daemon.last.settings.auto_fix_enabled
    /\ daemon.last.scan.returned
    /\ \E n \in DOMAIN daemon.last.scan.result.issues :
          daemon.last.scan.result.issues[n].fix = NoFix
    /\ \E n \in DOMAIN daemon.last.scan.result.issues :
          LET issue == daemon.last.scan.result.issues[n]
          IN  issue.fix # NoFix /\ ~issue.fix.is_auto_fix
    /\ Len(daemon.last.scan.result.issues) = 4
    /\ Len(daemon.last.fixes) = 2

\* C28: an iteration whose scan returned a ScanResult calls save_scan with
\* it, whatever auto_fix_enabled is and whatever the fixes returned; unless
\* save_scan itself fails, the result is then the newest row of the store,
\* under the time of the iteration.
C28_ResultAlwaysSaved ==
    (daemon.last.scan.op = "scan" /\ daemon.last.scan.returned)
    => /\ daemon.last.save_called
       /\ daemon.last.saved <=> daemon.last.err # "save"
       /\ daemon.last.saved =>
             /\ db.scans # <<>>
             /\ db.scans[Len(db.scans)] =
                    [scan_id |-> daemon.last.scan.result.scan_id,
                     timestamp |-> daemon.last.at, result |-> daemon.last.scan.result]

\* a result with issues was saved in an iteration where every fix attempted
\* failed
C28_Witness ==
    /\ daemon.last.scan.returned
    /\ daemon.last.scan.result.issues # <<>>
    /\ daemon.last.fixes # <<>>
    /\ \A k \in DOMAIN daemon.last.fixes : ~daemon.last.fixes[k].call.fix_result.success
    /\ daemon.last.saved
    /\ db.scans[Len(db.scans)].timestamp = daemon.last.at

-----------------------------------------------------------------------------
(* Properties of the fix actions that run external processes *)

\* C30: whenever a fix action waits on a child process, the wait has a
\* deadline and has not lasted longer than it.
C30_FixWaitBounded ==
    proc.state = "waiting" =>
        /\ Current.timeout.some
        /\ proc.waited <= Current.timeout.value

-----------------------------------------------------------------------------
(* Properties of the persisted store *)

\* the step in which a save_scan that holds the write lock writes its row
SaveCommitted ==
    /\ conns.lock # "none"
    /\ conns'.lock = "none"
    /\ conns.call[conns.lock].op = "save_scan"

\* C31: save_scan is an upsert keyed by scan id: after a save the store has
\* exactly one row for that scan id, the one saved, and the rows of the
\* other scan ids as before; saving a result whose row is already there
\* leaves the same rows, and saving it once more changes nothing; and
\* last_scan_timestamp is always None for a store without scans and else
\* the greatest timestamp of a stored scan.
C31_IdempotentUpsert ==
    [][LET call    == conns.call[conns.lock]
           row     == [scan_id |-> call.result.scan_id, timestamp |-> call.timestamp,
                       result |-> call.result]
           Rows(s) == {s.scans[k] : k \in DOMAIN s.scans}
       IN  /\ SaveCommitted =>
                /\ Cardinality({k \in DOMAIN db'.scans :
                                   db'.scans[k].scan_id = call.result.scan_id}) = 1
                /\ Rows(db') = {r \in Rows(db) : r.scan_id # call.result.scan_id}
                                  \cup {row}
                /\ (row \in Rows(db) => Rows(db') = Rows(db))
                /\ save_scan(db', call.timestamp, call.result) = db'
                /\ db'.settings = db.settings
           /\ IF db'.scans = <<>> THEN last_scan_timestamp(db') = None
              ELSE \E m \in {r.timestamp : r \in Rows(db')} :
                      /\ last_scan_timestamp(db') = Some(m)
                      /\ \A r \in Rows(db') : r.timestamp <= m]_vars

\* both callers saved the scan with id 1, with different timestamps, and the
\* store has the row of the foreground caller and the row of another scan
C31_Witness ==
    /\ conns.lock = "none"
    /\ \A c \in DOMAIN conns.call :
          conns.call[c].op = "save_scan" /\ conns.call[c].ret = "ok"
             /\ conns.call[c].result.scan_id = 1
    /\ conns.call["scheduler"].timestamp > conns.call["foreground"].timestamp
    /\ Len(db.scans) = 2
    /\ db.scans[2].scan_id = 1
    /\ db.scans[2].timestamp = conns.call["foreground"].timestamp
    /\ last_scan_timestamp(db) = Some(db.scans[1].timestamp)

\* the step in which a set_automation_settings that holds the write lock
\* writes its row
SettingsCommitted ==
    /\ conns.lock # "none"
    /\ conns'.lock = "none"
    /\ conns.call[conns.lock].op = "set_automation_settings"

\* C32 as stated: a schedule outside {daily, weekly, monthly} is never
\* written, and what is written is read back as it was passed.
C32_RejectsOutsideSet ==
    [][SettingsCommitted =>
          LET settings == conns.call[conns.lock].settings
          IN  /\ settings.run_schedule \in {"daily", "weekly", "monthly"}
              /\ get_automation_settings(db') = settings]_vars

\* C32, amended: set_automation_settings compares the schedule in lower
\* case. A schedule whose lower-case form is outside {daily, weekly,
\* monthly} returns an error and leaves the stored settings as they were;
\* any other is stored in lower case with the two flags as passed; the
\* stored settings change in no other way, so get_automation_settings
\* always returns a schedule in {daily, weekly, monthly}, and disabled,
\* weekly, auto-fix off while nothing is stored.
C32_RejectsOutsideSetIgnoringCase ==
    [][LET Lower(str) == CASE str = "WEEKLY" -> "weekly"
                           [] str = "Hourly" -> "hourly"
                           [] OTHER -> str
           Valid(settings) == Lower(settings.run_schedule) \in {"daily", "weekly", "monthly"}
       IN  /\ \A c \in DOMAIN conns.call :
                (/\ conns'.call[c] # conns.call[c]
                 /\ conns.lock # c
                 /\ conns'.call[c].op = "set_automation_settings"
                 /\ ~Valid(conns'.call[c].settings))
                => /\ conns'.call[c].ret = "invalid run schedule"
                   /\ conns'.lock # c
                   /\ db' = db
           /\ SettingsCommitted =>
                LET settings == conns.call[conns.lock].settings
                IN  /\ Valid(settings)
                    /\ get_automation_settings(db') =
                          [settings EXCEPT !.run_schedule = Lower(@)]
           /\ db'.settings # db.settings => SettingsCommitted
           /\ \A store \in {db, db'} :
                /\ get_automation_settings(store).run_schedule
                      \in {"daily", "weekly", "monthly"}
                /\ ~store.settings.some =>
                      get_automation_settings(store) =
                         [automation_enabled |-> FALSE, run_schedule |-> "weekly",
                          auto_fix_enabled |-> FALSE]]_vars

\* the scheduler's caller stored WEEKLY, which is read back as weekly, and
\* the foreground caller's Hourly was refused
C32_Witness ==
    /\ conns.call["scheduler"].op = "set_automation_settings"
    /\ conns.call["scheduler"].ret = "ok"
    /\ conns.call["scheduler"].settings.run_schedule = "WEEKLY"
    /\ conns.call["foreground"].op = "set_automation_settings"
    /\ conns.call["foreground"].ret = "invalid run schedule"
    /\ conns.call["foreground"].settings.run_schedule = "Hourly"
    /\ get_automation_settings(db) =
          [automation_enabled |-> TRUE, run_schedule |-> "weekly",
           auto_fix_enabled |-> FALSE]

-----------------------------------------------------------------------------
(* Properties of LicenseManager::load *)

\* C33: load gives the default Free license when there is no license file;
\* the license an operation saved is loaded with its tier, key, activated_at
\* and expires_at as they were saved; and a file that does not hold a License
\* makes load, and the operations that begin with it, return the parse error
\* and leave the file alone.
C33_LoadRoundTrips ==
    LET Unreadable(file) ==
            /\ file.exists
            /\ \/ ~file.content.object
               \/ file.content.fields.tier.value \notin {"Free", "Trial", "Pro"}
    IN  /\ ~license_file.exists =>
              load(license_file, now) = Ok(License(None, "Free", now, None))
        /\ Unreadable(license_file) =>
              load(license_file, now) = Err(Message("Failed to parse license file", ""))
        /\ \A j \in 1..Len(license_calls) :
              LET c == license_calls[j]
              IN  /\ c.after # c.before =>
                        /\ c.result.ok
                        /\ load(c.after, now).ok
                        /\ \A field \in {"tier", "key", "activated_at", "expires_at"} :
                              load(c.after, now).result[field] = c.result.result[field]
                  /\ (Unreadable(c.before) /\ c.op \in {"start_trial", "check_license"}) =>
                        /\ c.result = Err(Message("Failed to parse license file", ""))
                        /\ c.after = c.before

\* with no license file check_license saw the Free license; start_trial then
\* saved a Trial, and the next start_trial loaded and returned that Trial
C33_Witness ==
    /\ Len(license_calls) = 3
    /\ license_calls[1].op = "check_license"
    /\ ~license_calls[1].before.exists
    /\ license_calls[1].result.ok
    /\ license_calls[1].result.result.tier = "Free"
    /\ license_calls[2].op = "start_trial"
    /\ license_calls[2].after # license_calls[2].before
    /\ license_calls[3].op = "start_trial"
    /\ license_calls[3].result = Ok(License(None, "Trial", license_calls[2].at,
                                            Some(license_calls[2].at + 14 * 86400)))

-----------------------------------------------------------------------------
(* Properties of concurrent writers of the store *)

-----------------------------------------------------------------------------
(* Properties of the advisory flags *)

\* C35: in a scan that returns, the engine invokes PortScanner whatever
\* options.quick is and StartupAnalyzer whatever options.exclude_startup is
\* (only the category switches keep a checker from running); with quick set
\* every invoked PortScanner returns no issue and the result has no
\* port_open_ issue, and with exclude_startup set every invoked
\* StartupAnalyzer returns no issue and the result has none of its issues.
\* The checkers of the scan are those registered when it was called.
C35_FlagsHonouredByChecker ==
    (last.op = "scan" /\ last.returned) =>
        LET ResultIds == {last.result.issues[k].id : k \in DOMAIN last.result.issues}
            Honoured(flag, name, enabled, ids) ==
                /\ \A n \in DOMAIN last.invoked :
                      checkers[n] = name =>
                         /\ last.invoked[n] = enabled
                         /\ (flag /\ enabled) => last.out[n].issues = <<>>
                /\ flag => ResultIds \cap ids = {}
        IN  /\ Honoured(last.options.quick, "port_scanner", last.options.security,
                        {"port_open_445", "port_open_3389"})
            /\ Honoured(last.options.exclude_startup, "startup_analyzer",
                        last.options.performance,
                        {"excessive_startup_items", "bloatware_startup_skype"})

\* a quick scan without startup items invoked PortScanner and StartupAnalyzer,
\* got nothing from either, and reported the issue of a third checker
C35_Witness ==
    /\ last.op = "scan" /\ last.returned
    /\ last.options.quick /\ last.options.exclude_startup
    /\ \E n, m \in DOMAIN last.invoked :
          /\ checkers[n] = "port_scanner" /\ last.invoked[n]
          /\ checkers[m] = "startup_analyzer" /\ last.invoked[m]
    /\ last.result.issues # <<>>

-----------------------------------------------------------------------------
(* Properties of the scans the scheduler persists *)

C37_ScansAnIntervalApart ==
    [][(IterationStep /\ daemon'.last.scan.op = "scan") =>
          /\ \A k \in DOMAIN db.scans :
                daemon'.last.at >= db.scans[k].timestamp
                                      + Interval(daemon'.last.settings.run_schedule)
          /\ daemon'.last.saved =>
                /\ db'.scans[Len(db'.scans)].timestamp = daemon'.last.at
                /\ \A k \in DOMAIN db.scans :
                      db'.scans[Len(db'.scans)].timestamp - db.scans[k].timestamp
                         >= Interval(daemon'.last.settings.run_schedule)]_vars

\* under the daily schedule the scheduler saved a first scan into an empty
\* store and, after a sleep of a day, a second one exactly 86400 s later
C37_Witness ==
    /\ daemon.iterations = 2
    /\ daemon.last.settings.run_schedule = "daily"
    /\ daemon.last.saved
    /\ Len(db.scans) = 2
    /\ db.scans[1].timestamp = StartTime
    /\ db.scans[2].timestamp = StartTime + 86400

\* C38: an iteration whose scan returned a ScanResult made its calls in this
\* order: the scan; then one fix_issue for each issue it tried to fix, in the
\* order of the issues in the ScanResult; then save_scan, once, as the last
\* call and with the ScanResult the scan returned. An iteration whose scan
\* did not return made no call after the scan.
C38_ScanFixesSave ==
    LET trace  == daemon.last
        calls  == trace.calls
        issues_of == trace.scan.result.issues
    IN  (trace.scan.op = "scan") =>
           /\ calls # <<>>
           /\ calls[1].op = "scan_with_license"
           /\ ~trace.scan.returned => Len(calls) = 1
           /\ trace.scan.returned =>
                 /\ Len(calls) = Len(trace.fixes) + 2
                 /\ \A k \in 2..(Len(calls) - 1) : calls[k].op = "fix_issue"
                 /\ \E at \in [2..(Len(calls) - 1) -> DOMAIN issues_of] :
                       /\ \A k \in DOMAIN at : issues_of[at[k]].id = calls[k].arg
                       /\ \A j, k \in DOMAIN at : j < k => at[j] < at[k]
                 /\ calls[Len(calls)] = [op |-> "save_scan", arg |-> trace.scan.result]
                 /\ trace.saved =>
                       db.scans[Len(db.scans)].result = trace.scan.result

\* an iteration scanned, tried two fixes, for the firewall and then for the
\* startup item, and saved the result after them
C38_Witness ==
    /\ daemon.last.scan.returned
    /\ Len(daemon.last.calls) = 4
    /\ daemon.last.calls[2].arg = "firewall_disabled"
    /\ daemon.last.calls[3].arg = "bloatware_startup_skype"
    /\ daemon.last.calls[4].op = "save_scan"
    /\ daemon.last.saved

-----------------------------------------------------------------------------
(* Properties of ScannerEngine::scan as a whole *)

\* the issue lists of the first n checkers that were invoked, one after the
\* other in the order of registration
RECURSIVE Concatenation(_, _, _)
Concatenation(out, invoked, n) ==
    IF n = 0 THEN <<>>
    ELSE Concatenation(out, invoked, n - 1) \o (IF invoked[n] THEN out[n].issues ELSE <<>>)

\* C39: a scan leaves the registered checkers as they were, and when it
\* returns: it has invoked exactly the checkers its options include
\* (Security checkers under options.security, Performance checkers under
\* options.performance, the others always); its issues are the issues those
\* checkers returned, each as many times as it was returned, none lost and
\* none added; and its scores are calculate_scores of its issues.
C39_ScanKeepsIssues ==
    [][(last.op = "none" /\ last'.op = "scan") =>
          /\ checkers' = checkers
          /\ last'.returned =>
                LET all      == Concatenation(last'.out, last'.invoked, Len(checkers))
                    reported == last'.result.issues
                    Count(list, x) == Cardinality({k \in DOMAIN list : list[k] = x})
                IN  /\ \A n \in DOMAIN checkers :
                          last'.invoked[n] =
                             CASE category(checkers[n]) = "Security" ->
                                     last'.options.security
                               [] category(checkers[n]) = "Performance" ->
                                     last'.options.performance
                               [] OTHER -> TRUE
                    /\ Len(reported) = Len(all)
                    /\ \A x \in {all[k] : k \in DOMAIN all}
                                  \cup {reported[k] : k \in DOMAIN reported} :
                          Count(reported, x) = Count(all, x)
                    /\ last'.result.scores = calculate_scores(reported)]_vars

\* a scan left one of three checkers out and reported the four issues of the
\* other two in another order than they were returned in
C39_Witness ==
    /\ last.op = "scan" /\ last.returned
    /\ Len(last.invoked) = 3
    /\ \E n \in 1..3 : ~last.invoked[n] /\ last.out[n].issues # <<>>
    /\ Len(last.result.issues) = 4
    /\ last.result.issues # Concatenation(last.out, last.invoked, 3)

-----------------------------------------------------------------------------
(* Properties of the GUI commands *)

\* C40: at most one task is inside the engine, scanning or fixing, and it is
\* the task that holds the engine lock, from the start of its scan or fix to
\* the end of its command; a scan_start that returns leaves its result in
\* current_scan and returns its scan_id; and get_scan_result(id) returns a
\* result exactly when id is the scan_id returned by the scan_start that
\* returned last, that result being the stored one with scan_id = id; for
\* any other id, and before any scan, it returns an error.
C40_GuiCommands ==
    [][/\ \A t \in DOMAIN gui'.task : (gui'.task[t].pc = "engine") <=> (gui'.engine = t)
       /\ \A t, u \in DOMAIN gui'.task :
             (gui'.task[t].pc = "engine" /\ gui'.task[u].pc = "engine") => t = u
       /\ \A t \in DOMAIN gui.task :
             /\ (gui.task[t].pc = "engine" /\ gui'.task[t].pc = "engine") =>
                   gui'.task[t] = gui.task[t]
             /\ (gui.task[t].pc = "engine" /\ gui'.task[t].pc = "done"
                    /\ gui'.task[t].cmd = "scan_start" /\ gui'.task[t].ret.ok) =>
                   /\ gui'.latest = Some(gui'.task[t].ret.result)
                   /\ gui'.current_scan.some
                   /\ gui'.current_scan.value.scan_id = gui'.task[t].ret.result
             /\ (gui'.task[t] # gui.task[t] /\ gui'.task[t].cmd = "get_scan_result") =>
                   LET got == gui'.task[t]
                   IN  /\ got.ret.ok <=> gui.latest = Some(got.arg)
                       /\ got.ret.ok => /\ got.ret.result.scan_id = got.arg
                                        /\ got.ret.result = gui.current_scan.value
                       /\ ~got.ret.ok =>
                             got.ret.err = IF gui.latest.some THEN "Scan ID mismatch"
                                           ELSE "No scan results available"
       /\ gui'.latest # gui.latest =>
             \E t \in DOMAIN gui.task :
                gui.task[t].pc = "engine" /\ gui.task[t].cmd = "scan_start"]_vars

\* after two scans a task asked for the result of the first and got the
\* mismatch error, while the other task is inside a fix
C40_Witness ==
    /\ gui.latest = Some(2)
    /\ gui.task[1].cmd = "get_scan_result"
    /\ gui.task[1].arg = 1
    /\ gui.task[1].ret = [ok |-> FALSE, err |-> "Scan ID mismatch"]
    /\ gui.task[2].cmd = "fix_action"
    /\ gui.task[2].pc = "engine"
    /\ gui.engine = 2

====
